---- MODULE Spec2Model ----
(***************************************************************************)
(* Model of src/app.py: add_santa_hat (the compositor) and the part of     *)
(* main that saves the composite to outputs/santa_profile.png and reads it *)
(* back for the download button.                                           *)
(*                                                                         *)
(* Images.  A raster is kept as a piecewise-uniform pixel map: a record    *)
(*   [mode, width, height, bg, patches]                                    *)
(* where bg is the colour of every pixel no patch covers and patches is a  *)
(* sequence of rectangles [x0, y0, x1, y1, px] (x0 <= x < x1, y0 <= y <    *)
(* y1) painted in order, the later one on top.  PixelAt gives the pixel at *)
(* a coordinate.  A pixel is <<r, g, b>> (mode RGB) or <<r, g, b, a>>      *)
(* (modes RGBA and RGBa), each channel in 0..255.                          *)
(*                                                                         *)
(* Objects.  Python images are objects: heap maps each object (named by    *)
(* its allocation site) to its raster, and the locals of add_santa_hat     *)
(* hold object names, so that an in-place paste is visible as such.        *)
(*                                                                         *)
(* Numbers.  hat_scale is the numerator of a fraction over ScaleDen (the   *)
(* slider moves in steps of 0.05 = 1/20) and stands for the double nearest *)
(* to that fraction.  Lines 43-44 compute in IEEE-754 binary64; the model  *)
(* computes the integers those double-precision expressions yield, with    *)
(* integer arithmetic on quotients and remainders (IntOfProduct).          *)
(*                                                                         *)
(* Rotation.  Image.rotate takes Pillow's transpose paths for 0, 90, 180   *)
(* and 270 degrees and the affine transform (nearest neighbour, 16.16      *)
(* fixed point, transparent fill, bounding box enlarged) for every other   *)
(* whole angle.  The matrix entries are cosines and sines rounded to 15    *)
(* decimals (Trig15); the sizes and fixed-point constants derived from     *)
(* them are computed exactly in the reals; the double-precision evaluation *)
(* of Image.rotate gives the same integers on images up to 1000x1000.      *)
(*                                                                         *)
(* Resampling.  Image.resize with LANCZOS is the two-pass fixed-point      *)
(* convolution of Resample.c; the integer kernel weights are tabulated for *)
(* the source sizes 1..3 and the target sizes 1..24 (LanczosCoeffs).       *)
(*                                                                         *)
(* Files.  The content of outputs/santa_profile.png is its sequence of     *)
(* bytes.  Image.save writes the PNG through a buffered handle and the     *)
(* download button reads the file through another; every write(2) and      *)
(* every read(2) that a handle passes to the operating system is a step of *)
(* its own, made at the handle's own position, and the steps of the        *)
(* sessions interleave.  The compressed pixel data and the checksums of    *)
(* the chunks are tabulated for the images the sessions save (ZipEncode,   *)
(* Crc32), as zlib 1.2.13 gives them.                                      *)
(***************************************************************************)
EXTENDS Integers, Sequences, FiniteSets, TLC

VARIABLES
    heap,            \* object name -> raster (NoImage before allocation)
    profile_image,   \* local of add_santa_hat: object name
    santa_hat,       \* local of add_santa_hat: object name
    combined_image,  \* local of add_santa_hat: object name
    hat_scale,       \* argument: numerator over ScaleDen
    hat_offset_x,    \* argument
    hat_offset_y,    \* argument
    hat_rotation,    \* argument, degrees
    hat_width,       \* local
    hat_height,      \* local
    hat_position,    \* local: <<x, y>>
    pc,              \* position inside add_santa_hat
    err,             \* exception raised by add_santa_hat, or "none"
    result,          \* object returned by add_santa_hat, or "none"
    session,         \* main: per session [pc, combined, data, pos, pending, bufsize]
    output_file      \* main: content of outputs/santa_profile.png

cvars == <<heap, profile_image, santa_hat, combined_image, hat_scale,
           hat_offset_x, hat_offset_y, hat_rotation, hat_width, hat_height,
           hat_position, pc, err, result>>
mvars == <<session, output_file>>
vars == <<cvars, mvars>>

----------------------------------------------------------------------------
(* Bounds of the enumerated inputs *)

FullScan == 8    \* coordinates below FullScan are all inspected, larger ones at the edges
MaxBase == 3     \* base images are 1..MaxBase pixels wide, 1 or MaxBase pixels high
MaxHat == 2      \* overlay images are 1..MaxHat pixels wide, 1 or MaxHat pixels high

(* Slider of main: scale moves in steps of 0.05, i.e. in 20ths *)
ScaleDen == 20

----------------------------------------------------------------------------
(* Integer helpers *)

Max(a, b) == IF a >= b THEN a ELSE b
Min(a, b) == IF a <= b THEN a ELSE b

RECURSIVE Pow2(_)
Pow2(n) == IF n = 0 THEN 1 ELSE 2 * Pow2(n - 1)

(* floor(log2(a / b)) for a, b > 0: the binary exponent of the quotient *)
Exponent(a, b) ==
    IF a >= b THEN CHOOSE e \in 0..30 : b * Pow2(e) <= a /\ a < b * Pow2(e + 1)
    ELSE -(CHOOSE k \in 1..30 : a * Pow2(k) >= b /\ a * Pow2(k - 1) < b)

(* (a * 2^p) mod b, for p >= 0 *)
RECURSIVE ScaledRemainder(_, _, _)
ScaledRemainder(a, p, b) == IF p = 0 THEN a % b ELSE (2 * ScaledRemainder(a, p - 1, b)) % b

(* The binary64 product h * (a / b) lies below the integer n = h * a / b
   (h, a, b, n > 0 and b divides h * a).  The quotient a / b is rounded to 53
   significant bits: with E its binary exponent, the bits dropped are
   rem / b units in the last place, rem = (a * 2^(52 - E)) mod b, and the
   quotient is rounded down when 2 * rem < b.  The product h * quotient is
   then n minus h * rem / b units of 2^(E - 52), and it is rounded to a
   double below n when that exceeds half the spacing of the doubles just
   below n (2^(e - 52) with e the binary exponent of n, half of that when n
   is a power of two); a tie goes to n, whose significand is even. *)
ProductFallsBelow(h, a, b) ==
    LET n == (h * a) \div b
        E == Exponent(a, b)
        e == Exponent(n, 1)
        rem == ScaledRemainder(a, 52 - E, b)
        half == IF n = Pow2(e) THEN 4 ELSE 2
    IN  2 * rem < b /\ h * rem * half > b * Pow2(e - E)

(* Python int(h * (a / b)) for integers h >= 0 and a, b > 0 read as doubles:
   the exact product truncated, or one less where the exact product is an
   integer and the double product falls below it *)
IntOfPositiveProduct(h, a, b) ==
    IF h = 0 \/ a = 0 THEN 0
    ELSE IF (h * a) % b # 0 THEN (h * a) \div b
    ELSE IF ProductFallsBelow(h, a, b) THEN ((h * a) \div b) - 1
    ELSE (h * a) \div b

(* Python int(h * (a / b)), a of either sign: binary64 arithmetic is
   symmetric in the sign and int() truncates toward zero *)
IntOfProduct(h, a, b) ==
    IF a >= 0 THEN IntOfPositiveProduct(h, a, b) ELSE -IntOfPositiveProduct(h, -a, b)

(* Pillow ImagingUtils.h: DIV255, MULDIV255, BLEND, CLIP8, SHIFTFORDIV255 *)
SHIFTFORDIV255(a) == ((a \div 256) + a) \div 256
DIV255(a) == SHIFTFORDIV255(a + 128)
MULDIV255(a, b) == DIV255(a * b)
BLEND(mask, in1, in2) == DIV255(in1 * (255 - mask) + in2 * mask)
CLIP8(v) == IF v > 255 THEN 255 ELSE IF v < 0 THEN 0 ELSE v

----------------------------------------------------------------------------
(* Rasters *)

NoImage == [mode |-> "none"]

Uniform(mode, w, h, px) ==
    [mode |-> mode, width |-> w, height |-> h, bg |-> px, patches |-> <<>>]

Rect(x0, y0, x1, y1, px) == [x0 |-> x0, y0 |-> y0, x1 |-> x1, y1 |-> y1, px |-> px]

EmptyRect(r) == r.x0 >= r.x1 \/ r.y0 >= r.y1

InRect(r, x, y) == r.x0 <= x /\ x < r.x1 /\ r.y0 <= y /\ y < r.y1

(* The pixel of raster im at (x, y): the topmost patch there, else bg *)
PixelAt(im, x, y) ==
    LET hits == {i \in DOMAIN im.patches : InRect(im.patches[i], x, y)}
    IN  IF hits = {} THEN im.bg
        ELSE im.patches[CHOOSE i \in hits : \A j \in hits : j <= i].px

(* bg and the patches as one sequence of layers, bottom first *)
Layers(im) == <<Rect(0, 0, im.width, im.height, im.bg)>> \o im.patches

Covers(r, im) == r.x0 <= 0 /\ r.y0 <= 0 /\ r.x1 >= im.width /\ r.y1 >= im.height

(* Same pixels, smallest description: a patch over the whole canvas becomes
   bg and hides what lies below it; empty patches are dropped. *)
Canon(im) ==
    LET full == {i \in DOMAIN im.patches : Covers(im.patches[i], im)}
        top  == IF full = {} THEN 0 ELSE CHOOSE i \in full : \A j \in full : j <= i
        rest == SubSeq(im.patches, top + 1, Len(im.patches))
    IN  [im EXCEPT !.bg = IF top = 0 THEN im.bg ELSE im.patches[top].px,
                   !.patches = SelectSeq(rest, LAMBDA r : ~EmptyRect(r))]

(* The raster whose pixel at (x, y) is px[y][x]: bg is the bottom-right
   pixel and every run of equal pixels of another colour in a row is a patch. *)
FromPixels(mode, w, h, px) ==
    LET bg == px[h - 1][w - 1]
        xof(k) == (k - 1) % w
        yof(k) == (k - 1) \div w
        starts(k) == /\ px[yof(k)][xof(k)] # bg
                     /\ (xof(k) = 0 \/ px[yof(k)][xof(k) - 1] # px[yof(k)][xof(k)])
        stop(k) == CHOOSE e \in (xof(k) + 1)..w :
                      /\ \A m \in (xof(k) + 1)..(e - 1) : px[yof(k)][m] = px[yof(k)][xof(k)]
                      /\ (e = w \/ px[yof(k)][e] # px[yof(k)][xof(k)])
        ks == SelectSeq([k \in 1..(w * h) |-> k], starts)
    IN  [mode |-> mode, width |-> w, height |-> h, bg |-> bg,
         patches |-> [i \in DOMAIN ks |->
                        Rect(xof(ks[i]), yof(ks[i]), stop(ks[i]), yof(ks[i]) + 1,
                             px[yof(ks[i])][xof(ks[i])])]]

----------------------------------------------------------------------------
(* Pillow operations called by add_santa_hat *)

(* Convert.c rgb2rgba: an opaque alpha channel is added *)
rgb2rgba(p) == <<p[1], p[2], p[3], 255>>

(* Convert.c rgbA2rgba: RGBA -> RGBa, colour premultiplied by alpha *)
rgbA2rgba(p) == <<MULDIV255(p[1], p[4]), MULDIV255(p[2], p[4]), MULDIV255(p[3], p[4]), p[4]>>

(* Convert.c rgba2rgbA: RGBa -> RGBA, colour divided by alpha *)
rgba2rgbA(p) ==
    IF p[4] = 255 \/ p[4] = 0 THEN p
    ELSE <<CLIP8((255 * p[1]) \div p[4]), CLIP8((255 * p[2]) \div p[4]),
           CLIP8((255 * p[3]) \div p[4]), p[4]>>

(* Convert.c: the conversion of one pixel between two modes *)
convert_pixel(p, from, to) ==
    CASE from = "RGB"  /\ to = "RGBA" -> rgb2rgba(p)
      [] from = "RGBA" /\ to = "RGBa" -> rgbA2rgba(p)
      [] from = "RGBa" /\ to = "RGBA" -> rgba2rgbA(p)

(* Image.convert(mode): always a new image; a copy when the mode is the same *)
convert(im, mode) ==
    IF im.mode = mode THEN im
    ELSE [im EXCEPT !.mode = mode,
                    !.bg = convert_pixel(im.bg, im.mode, mode),
                    !.patches = [i \in DOMAIN im.patches |->
                                    [im.patches[i] EXCEPT
                                        !.px = convert_pixel(im.patches[i].px, im.mode, mode)]]]

(* Variant of ResizeRaises: only negative sizes are refused *)
ResizeRaisesNegativeOnly(w, h) == w < 0 \/ h < 0

(* _imaging.c _resize: "height and width must be > 0" (ValueError) *)
ResizeRaises(w, h) == w < 1 \/ h < 1

(* Resample.c precompute_coeffs and normalize_coeffs_8bpc with the Lanczos
   filter (support 3): for a source of in pixels and a target of out pixels
   along one axis, one entry <<first, weights>> per target position: the
   first source position read and the weights, times 2^22 and rounded to
   integers, of the source positions from there on.  A source of one pixel
   has the single weight 1.0 at every target position. *)
LanczosCoeffs(in, out) ==
    IF in = 1 THEN [xx \in 1..out |-> <<0, <<4194304>>>>]
    ELSE CASE
         in = 2 /\ out = 1 ->
            <<
              <<0, <<2097152, 2097152>>>>
            >>
      [] in = 2 /\ out = 3 ->
            <<
              <<0, <<4715023, -520719>>>>, <<0, <<2097152, 2097152>>>>, <<0, <<-520719, 4715023>>>>
            >>
      [] in = 2 /\ out = 4 ->
            <<
              <<0, <<4930311, -736007>>>>, <<0, <<3217574, 976730>>>>, <<0, <<976730, 3217574>>>>,
              <<0, <<-736007, 4930311>>>>
            >>
      [] in = 2 /\ out = 5 ->
            <<
              <<0, <<5044681, -850377>>>>, <<0, <<3828486, 365818>>>>, <<0, <<2097152, 2097152>>>>,
              <<0, <<365818, 3828486>>>>, <<0, <<-850377, 5044681>>>>
            >>
      [] in = 2 /\ out = 6 ->
            <<
              <<0, <<5114765, -920461>>>>, <<0, <<4194304, 0>>>>, <<0, <<2853566, 1340738>>>>,
              <<0, <<1340738, 2853566>>>>, <<0, <<0, 4194304>>>>, <<0, <<-920461, 5114765>>>>
            >>
      [] in = 2 /\ out = 7 ->
            <<
              <<0, <<5161823, -967519>>>>, <<0, <<4431774, -237470>>>>, <<0, <<3368835, 825469>>>>,
              <<0, <<2097152, 2097152>>>>, <<0, <<825469, 3368835>>>>, <<0, <<-237470, 4431774>>>>,
              <<0, <<-967519, 5161823>>>>
            >>
      [] in = 2 /\ out = 8 ->
            <<
              <<0, <<5195484, -1001180>>>>, <<0, <<4595914, -401610>>>>, <<0, <<3731444, 462860>>>>,
              <<0, <<2666983, 1527321>>>>, <<0, <<1527321, 2666983>>>>, <<0, <<462860, 3731444>>>>,
              <<0, <<-401610, 4595914>>>>, <<0, <<-1001180, 5195484>>>>
            >>
      [] in = 2 /\ out = 9 ->
            <<
              <<0, <<5220702, -1026398>>>>, <<0, <<4715023, -520719>>>>, <<0, <<3995641, 198663>>>>,
              <<0, <<3097820, 1096484>>>>, <<0, <<2097152, 2097152>>>>, <<0, <<1096484, 3097820>>>>,
              <<0, <<198663, 3995641>>>>, <<0, <<-520719, 4715023>>>>, <<0, <<-1026398, 5220702>>>>
            >>
      [] in = 2 /\ out = 10 ->
            <<
              <<0, <<5240273, -1045969>>>>, <<0, <<4804828, -610524>>>>, <<0, <<4194304, 0>>>>,
              <<0, <<3428412, 765892>>>>, <<0, <<2553955, 1640349>>>>, <<0, <<1640349, 2553955>>>>,
              <<0, <<765892, 3428412>>>>, <<0, <<0, 4194304>>>>, <<0, <<-610524, 4804828>>>>,
              <<0, <<-1045969, 5240273>>>>
            >>
      [] in = 2 /\ out = 11 ->
            <<
              <<0, <<5255889, -1061585>>>>, <<0, <<4874649, -680345>>>>,
              <<0, <<4347835, -153531>>>>, <<0, <<3686649, 507655>>>>, <<0, <<2920747, 1273557>>>>,
              <<0, <<2097152, 2097152>>>>, <<0, <<1273557, 2920747>>>>, <<0, <<507655, 3686649>>>>,
              <<0, <<-153531, 4347835>>>>, <<0, <<-680345, 4874649>>>>, <<0, <<-1061585, 5255889>>>>
            >>
      [] in = 2 /\ out = 12 ->
            <<
              <<0, <<5268629, -1074325>>>>, <<0, <<4930311, -736007>>>>,
              <<0, <<4469304, -275000>>>>, <<0, <<3891992, 302312>>>>, <<0, <<3217574, 976730>>>>,
              <<0, <<2478247, 1716057>>>>, <<0, <<1716057, 2478247>>>>, <<0, <<976730, 3217574>>>>,
              <<0, <<302312, 3891992>>>>, <<0, <<-275000, 4469304>>>>, <<0, <<-736007, 4930311>>>>,
              <<0, <<-1074325, 5268629>>>>
            >>
      [] in = 2 /\ out = 13 ->
            <<
              <<0, <<5279217, -1084913>>>>, <<0, <<4975615, -781311>>>>,
              <<0, <<4567357, -373053>>>>, <<0, <<4058018, 136286>>>>, <<0, <<3460260, 734044>>>>,
              <<0, <<2796427, 1397877>>>>, <<0, <<2097152, 2097152>>>>, <<0, <<1397877, 2796427>>>>,
              <<0, <<734044, 3460260>>>>, <<0, <<136286, 4058018>>>>, <<0, <<-373053, 4567357>>>>,
              <<0, <<-781311, 4975615>>>>, <<0, <<-1084913, 5279217>>>>
            >>
      [] in = 2 /\ out = 14 ->
            <<
              <<0, <<5288152, -1093848>>>>, <<0, <<5013138, -818834>>>>,
              <<0, <<4647887, -453583>>>>, <<0, <<4194304, 0>>>>, <<0, <<3660865, 533439>>>>,
              <<0, <<3063294, 1131010>>>>, <<0, <<2424026, 1770278>>>>, <<0, <<1770278, 2424026>>>>,
              <<0, <<1131010, 3063294>>>>, <<0, <<533439, 3660865>>>>, <<0, <<0, 4194304>>>>,
              <<0, <<-453583, 4647887>>>>, <<0, <<-818834, 5013138>>>>, <<0, <<-1093848, 5288152>>>>
            >>
      [] in = 2 /\ out = 15 ->
            <<
              <<0, <<5295791, -1101487>>>>, <<0, <<5044681, -850377>>>>,
              <<0, <<4715023, -520719>>>>, <<0, <<4307711, -113407>>>>, <<0, <<3828486, 365818>>>>,
              <<0, <<3288561, 905743>>>>, <<0, <<2704494, 1489810>>>>, <<0, <<2097152, 2097152>>>>,
              <<0, <<1489810, 2704494>>>>, <<0, <<905743, 3288561>>>>, <<0, <<365818, 3828486>>>>,
              <<0, <<-113407, 4307711>>>>, <<0, <<-520719, 4715023>>>>, <<0, <<-850377, 5044681>>>>,
              <<0, <<-1101487, 5295791>>>>
            >>
      [] in = 2 /\ out = 16 ->
            <<
              <<0, <<5302396, -1108092>>>>, <<0, <<5071539, -877235>>>>,
              <<0, <<4771726, -577422>>>>, <<0, <<4403237, -208933>>>>, <<0, <<3969991, 224313>>>>,
              <<0, <<3480080, 714224>>>>, <<0, <<2945836, 1248468>>>>, <<0, <<2383292, 1811012>>>>,
              <<0, <<1811012, 2383292>>>>, <<0, <<1248468, 2945836>>>>, <<0, <<714224, 3480080>>>>,
              <<0, <<224313, 3969991>>>>, <<0, <<-208933, 4403237>>>>, <<0, <<-577422, 4771726>>>>,
              <<0, <<-877235, 5071539>>>>, <<0, <<-1108092, 5302396>>>>
            >>
      [] in = 2 /\ out = 17 ->
            <<
              <<0, <<5308163, -1113859>>>>, <<0, <<5094662, -900358>>>>,
              <<0, <<4820166, -625862>>>>, <<0, <<4484584, -290280>>>>, <<0, <<4090597, 103707>>>>,
              <<0, <<3644110, 550194>>>>, <<0, <<3154391, 1039913>>>>, <<0, <<2633814, 1560490>>>>,
              <<0, <<2097152, 2097152>>>>, <<0, <<1560490, 2633814>>>>, <<0, <<1039913, 3154391>>>>,
              <<0, <<550194, 3644110>>>>, <<0, <<103707, 4090597>>>>, <<0, <<-290280, 4484584>>>>,
              <<0, <<-625862, 4820166>>>>, <<0, <<-900358, 5094662>>>>, <<0, <<-1113859, 5308163>>>>
            >>
      [] in = 2 /\ out = 18 ->
            <<
              <<0, <<5313240, -1118936>>>>, <<0, <<5114765, -920461>>>>,
              <<0, <<4861969, -667665>>>>, <<0, <<4554537, -360233>>>>, <<0, <<4194304, 0>>>>,
              <<0, <<3785616, 408688>>>>, <<0, <<3335501, 858803>>>>, <<0, <<2853566, 1340738>>>>,
              <<0, <<2351575, 1842729>>>>, <<0, <<1842729, 2351575>>>>, <<0, <<1340738, 2853566>>>>,
              <<0, <<858803, 3335501>>>>, <<0, <<408688, 3785616>>>>, <<0, <<0, 4194304>>>>,
              <<0, <<-360233, 4554537>>>>, <<0, <<-667665, 4861969>>>>, <<0, <<-920461, 5114765>>>>,
              <<0, <<-1118936, 5313240>>>>
            >>
      [] in = 2 /\ out = 19 ->
            <<
              <<0, <<5317745, -1123441>>>>, <<0, <<5132392, -938088>>>>,
              <<0, <<4898366, -704062>>>>, <<0, <<4615223, -420919>>>>, <<0, <<4284207, -89903>>>>,
              <<0, <<3908542, 285762>>>>, <<0, <<3493603, 700701>>>>, <<0, <<3046894, 1147410>>>>,
              <<0, <<2577808, 1616496>>>>, <<0, <<2097152, 2097152>>>>, <<0, <<1616496, 2577808>>>>,
              <<0, <<1147410, 3046894>>>>, <<0, <<700701, 3493603>>>>, <<0, <<285762, 3908542>>>>,
              <<0, <<-89903, 4284207>>>>, <<0, <<-420919, 4615223>>>>, <<0, <<-704062, 4898366>>>>,
              <<0, <<-938088, 5132392>>>>, <<0, <<-1123441, 5317745>>>>
            >>
      [] in = 2 /\ out = 20 ->
            <<
              <<0, <<5321768, -1127464>>>>, <<0, <<5147967, -953663>>>>,
              <<0, <<4930311, -736007>>>>, <<0, <<4668288, -473984>>>>, <<0, <<4362727, -168423>>>>,
              <<0, <<4016033, 178271>>>>, <<0, <<3632348, 561956>>>>, <<0, <<3217574, 976730>>>>,
              <<0, <<2779236, 1415068>>>>, <<0, <<2326182, 1868122>>>>, <<0, <<1868122, 2326182>>>>,
              <<0, <<1415068, 2779236>>>>, <<0, <<976730, 3217574>>>>, <<0, <<561956, 3632348>>>>,
              <<0, <<178271, 4016033>>>>, <<0, <<-168423, 4362727>>>>, <<0, <<-473984, 4668288>>>>,
              <<0, <<-736007, 4930311>>>>, <<0, <<-953663, 5147967>>>>, <<0, <<-1127464, 5321768>>>>
            >>
      [] in = 2 /\ out = 21 ->
            <<
              <<0, <<5325382, -1131078>>>>, <<0, <<5161823, -967519>>>>,
              <<0, <<4958550, -764246>>>>, <<0, <<4715023, -520719>>>>, <<0, <<4431774, -237470>>>>,
              <<0, <<4110609, 83695>>>>, <<0, <<3754739, 439565>>>>, <<0, <<3368835, 825469>>>>,
              <<0, <<2958955, 1235349>>>>, <<0, <<2532351, 1661953>>>>, <<0, <<2097152, 2097152>>>>,
              <<0, <<1661953, 2532351>>>>, <<0, <<1235349, 2958955>>>>, <<0, <<825469, 3368835>>>>,
              <<0, <<439565, 3754739>>>>, <<0, <<83695, 4110609>>>>, <<0, <<-237470, 4431774>>>>,
              <<0, <<-520719, 4715023>>>>, <<0, <<-764246, 4958550>>>>, <<0, <<-967519, 5161823>>>>,
              <<0, <<-1131078, 5325382>>>>
            >>
      [] in = 2 /\ out = 22 ->
            <<
              <<0, <<5328648, -1134344>>>>, <<0, <<5174225, -979921>>>>,
              <<0, <<4983675, -789371>>>>, <<0, <<4756451, -562147>>>>, <<0, <<4492875, -298571>>>>,
              <<0, <<4194304, 0>>>>, <<0, <<3863246, 331058>>>>, <<0, <<3503418, 690886>>>>,
              <<0, <<3119721, 1074583>>>>, <<0, <<2718112, 1476192>>>>, <<0, <<2305394, 1888910>>>>,
              <<0, <<1888910, 2305394>>>>, <<0, <<1476192, 2718112>>>>, <<0, <<1074583, 3119721>>>>,
              <<0, <<690886, 3503418>>>>, <<0, <<331058, 3863246>>>>, <<0, <<0, 4194304>>>>,
              <<0, <<-298571, 4492875>>>>, <<0, <<-562147, 4756451>>>>, <<0, <<-789371, 4983675>>>>,
              <<0, <<-979921, 5174225>>>>, <<0, <<-1134344, 5328648>>>>
            >>
      [] in = 2 /\ out = 23 ->
            <<
              <<0, <<5331612, -1137308>>>>, <<0, <<5185387, -991083>>>>,
              <<0, <<5006160, -811856>>>>, <<0, <<4793392, -599088>>>>, <<0, <<4547256, -352952>>>>,
              <<0, <<4268771, -74467>>>>, <<0, <<3959906, 234398>>>>, <<0, <<3623637, 570667>>>>,
              <<0, <<3263946, 930358>>>>, <<0, <<2885745, 1308559>>>>, <<0, <<2494727, 1699577>>>>,
              <<0, <<2097152, 2097152>>>>, <<0, <<1699577, 2494727>>>>, <<0, <<1308559, 2885745>>>>,
              <<0, <<930358, 3263946>>>>, <<0, <<570667, 3623637>>>>, <<0, <<234398, 3959906>>>>,
              <<0, <<-74467, 4268771>>>>, <<0, <<-352952, 4547256>>>>, <<0, <<-599088, 4793392>>>>,
              <<0, <<-811856, 5006160>>>>, <<0, <<-991083, 5185387>>>>, <<0, <<-1137308, 5331612>>>>
            >>
      [] in = 2 /\ out = 24 ->
            <<
              <<0, <<5334314, -1140010>>>>, <<0, <<5195484, -1001180>>>>,
              <<0, <<5026391, -832087>>>>, <<0, <<4826512, -632208>>>>, <<0, <<4595914, -401610>>>>,
              <<0, <<4335361, -141057>>>>, <<0, <<4046406, 147898>>>>, <<0, <<3731444, 462860>>>>,
              <<0, <<3393726, 800578>>>>, <<0, <<3037314, 1156990>>>>, <<0, <<2666983, 1527321>>>>,
              <<0, <<2288064, 1906240>>>>, <<0, <<1906240, 2288064>>>>, <<0, <<1527321, 2666983>>>>,
              <<0, <<1156990, 3037314>>>>, <<0, <<800578, 3393726>>>>, <<0, <<462860, 3731444>>>>,
              <<0, <<147898, 4046406>>>>, <<0, <<-141057, 4335361>>>>, <<0, <<-401610, 4595914>>>>,
              <<0, <<-632208, 4826512>>>>, <<0, <<-832087, 5026391>>>>,
              <<0, <<-1001180, 5195484>>>>, <<0, <<-1140010, 5334314>>>>
            >>
      [] in = 3 /\ out = 1 ->
            <<
              <<0, <<1296896, 1600512, 1296896>>>>
            >>
      [] in = 3 /\ out = 2 ->
            <<
              <<0, <<2742406, 1754765, -302866>>>>, <<0, <<-302866, 1754765, 2742406>>>>
            >>
      [] in = 3 /\ out = 4 ->
            <<
              <<0, <<4492385, -392563, 94482>>>>, <<0, <<1740598, 3039405, -585699>>>>,
              <<0, <<-585699, 3039405, 1740598>>>>, <<0, <<94482, -392563, 4492385>>>>
            >>
      [] in = 3 /\ out = 5 ->
            <<
              <<0, <<4647556, -590540, 137288>>>>, <<0, <<2815995, 1808651, -430341>>>>,
              <<0, <<0, 4194304, 0>>>>, <<0, <<-430341, 1808651, 2815995>>>>,
              <<0, <<137288, -590540, 4647556>>>>
            >>
      [] in = 3 /\ out = 6 ->
            <<
              <<0, <<4742290, -707939, 159953>>>>, <<0, <<3417235, 1037340, -260271>>>>,
              <<0, <<1103050, 3633700, -542446>>>>, <<0, <<-542446, 3633700, 1103050>>>>,
              <<0, <<-260271, 1037340, 3417235>>>>, <<0, <<159953, -707939, 4742290>>>>
            >>
      [] in = 3 /\ out = 7 ->
            <<
              <<0, <<4806022, -785004, 173286>>>>, <<0, <<3782888, 551220, -139804>>>>,
              <<0, <<2010640, 2753150, -569486>>>>, <<0, <<0, 4194304, 0>>>>,
              <<0, <<-569486, 2753150, 2010640>>>>, <<0, <<-139804, 551220, 3782888>>>>,
              <<0, <<173286, -785004, 4806022>>>>
            >>
      [] in = 3 /\ out = 8 ->
            <<
              <<0, <<4851787, -839224, 181741>>>>, <<0, <<4024345, 227384, -57425>>>>,
              <<0, <<2649595, 2013370, -468661>>>>, <<0, <<793938, 3868488, -468122>>>>,
              <<0, <<-468122, 3868488, 793938>>>>, <<0, <<-468661, 2013370, 2649595>>>>,
              <<0, <<-57425, 227384, 4024345>>>>, <<0, <<181741, -839224, 4851787>>>>
            >>
      [] in = 3 /\ out = 9 ->
            <<
              <<0, <<4886227, -879333, 187410>>>>, <<0, <<4194304, 0, 0>>>>,
              <<0, <<3096179, 1454728, -356604>>>>, <<0, <<1527794, 3251689, -585179>>>>,
              <<0, <<0, 4194304, 0>>>>, <<0, <<-585179, 3251689, 1527794>>>>,
              <<0, <<-356604, 1454728, 3096179>>>>, <<0, <<0, 0, 4194304>>>>,
              <<0, <<187410, -879333, 4886227>>>>
            >>
      [] in = 3 /\ out = 10 ->
            <<
              <<0, <<4913073, -910149, 191380>>>>, <<0, <<4319892, -166769, 41181>>>>,
              <<0, <<3417235, 1037340, -260271>>>>, <<0, <<2116848, 2635894, -558438>>>>,
              <<0, <<616132, 3982529, -404357>>>>, <<0, <<-404357, 3982529, 616132>>>>,
              <<0, <<-558438, 2635894, 2116848>>>>, <<0, <<-260271, 1037340, 3417235>>>>,
              <<0, <<41181, -166769, 4319892>>>>, <<0, <<191380, -910149, 4913073>>>>
            >>
      [] in = 3 /\ out = 11 ->
            <<
              <<0, <<4934584, -934536, 194256>>>>, <<0, <<4416243, -293479, 71540>>>>,
              <<0, <<3655901, 720956, -182553>>>>, <<0, <<2571970, 2107327, -484993>>>>,
              <<0, <<1218088, 3536342, -560126>>>>, <<0, <<0, 4194304, 0>>>>,
              <<0, <<-560126, 3536342, 1218088>>>>, <<0, <<-484993, 2107327, 2571970>>>>,
              <<0, <<-182553, 720956, 3655901>>>>, <<0, <<71540, -293479, 4416243>>>>,
              <<0, <<194256, -934536, 4934584>>>>
            >>
      [] in = 3 /\ out = 12 ->
            <<
              <<0, <<4952203, -954299, 196400>>>>, <<0, <<4492385, -392563, 94482>>>>,
              <<0, <<3838882, 476187, -120765>>>>, <<0, <<2923456, 1674197, -403349>>>>,
              <<0, <<1740598, 3039405, -585699>>>>, <<0, <<501877, 4045982, -353555>>>>,
              <<0, <<-353555, 4045982, 501877>>>>, <<0, <<-585699, 3039405, 1740598>>>>,
              <<0, <<-403349, 1674197, 2923456>>>>, <<0, <<-120765, 476187, 3838882>>>>,
              <<0, <<94482, -392563, 4492385>>>>, <<0, <<196400, -954299, 4952203>>>>
            >>
      [] in = 3 /\ out = 13 ->
            <<
              <<0, <<4966898, -970629, 198035>>>>, <<0, <<4554013, -471907, 112198>>>>,
              <<0, <<3982964, 282891, -71551>>>>, <<0, <<3198441, 1323010, -327146>>>>,
              <<0, <<2173504, 2572340, -551540>>>>, <<0, <<1006615, 3711376, -523687>>>>,
              <<0, <<0, 4194304, 0>>>>, <<0, <<-523687, 3711376, 1006615>>>>,
              <<0, <<-551540, 2572340, 2173504>>>>, <<0, <<-327146, 1323010, 3198441>>>>,
              <<0, <<-71551, 282891, 3982964>>>>, <<0, <<112198, -471907, 4554013>>>>,
              <<0, <<198035, -970629, 4966898>>>>
            >>
      [] in = 3 /\ out = 14 ->
            <<
              <<0, <<4979340, -984342, 199306>>>>, <<0, <<4604879, -536713, 126138>>>>,
              <<0, <<4099016, 127328, -32040>>>>, <<0, <<3417235, 1037340, -260271>>>>,
              <<0, <<2527077, 2161194, -493967>>>>, <<0, <<1466830, 3310122, -582648>>>>,
              <<0, <<422696, 4084769, -313161>>>>, <<0, <<-313161, 4084769, 422696>>>>,
              <<0, <<-582648, 3310122, 1466830>>>>, <<0, <<-493967, 2161194, 2527077>>>>,
              <<0, <<-260271, 1037340, 3417235>>>>, <<0, <<-32040, 127328, 4099016>>>>,
              <<0, <<126138, -536713, 4604879>>>>, <<0, <<199306, -984342, 4979340>>>>
            >>
      [] in = 3 /\ out = 15 ->
            <<
              <<0, <<4990009, -996016, 200311>>>>, <<0, <<4647556, -590540, 137288>>>>,
              <<0, <<4194304, 0, 0>>>>, <<0, <<3594330, 802957, -202983>>>>,
              <<0, <<2815995, 1808651, -430341>>>>, <<0, <<1867300, 2907309, -580305>>>>,
              <<0, <<854659, 3825765, -486120>>>>, <<0, <<0, 4194304, 0>>>>,
              <<0, <<-486120, 3825765, 854659>>>>, <<0, <<-580305, 2907309, 1867300>>>>,
              <<0, <<-430341, 1808651, 2815995>>>>, <<0, <<-202983, 802957, 3594330>>>>,
              <<0, <<0, 0, 4194304>>>>, <<0, <<137288, -590540, 4647556>>>>,
              <<0, <<200311, -996016, 4990009>>>>
            >>
      [] in = 3 /\ out = 16 ->
            <<
              <<0, <<4999259, -1006072, 201117>>>>, <<0, <<4683860, -635893, 146337>>>>,
              <<0, <<4273833, -105784, 26254>>>>, <<0, <<3739989, 608638, -154323>>>>,
              <<0, <<3053755, 1508997, -368449>>>>, <<0, <<2208710, 2532508, -546913>>>>,
              <<0, <<1261453, 3498394, -565544>>>>, <<0, <<364764, 4110159, -280619>>>>,
              <<0, <<-280619, 4110159, 364764>>>>, <<0, <<-565544, 3498394, 1261453>>>>,
              <<0, <<-546913, 2532508, 2208710>>>>, <<0, <<-368449, 1508997, 3053755>>>>,
              <<0, <<-154323, 608638, 3739989>>>>, <<0, <<26254, -105784, 4273833>>>>,
              <<0, <<146337, -635893, 4683860>>>>, <<0, <<201117, -1006072, 4999259>>>>
            >>
      [] in = 3 /\ out = 17 ->
            <<
              <<0, <<5007356, -1014823, 201771>>>>, <<0, <<4715111, -674580, 153773>>>>,
              <<0, <<4341148, -194830, 47987>>>>, <<0, <<3861542, 445800, -113038>>>>,
              <<0, <<3251328, 1254413, -311437>>>>, <<0, <<2497825, 2196101, -499623>>>>,
              <<0, <<1628108, 3153182, -586986>>>>, <<0, <<740925, 3904278, -450900>>>>,
              <<0, <<0, 4194304, 0>>>>, <<0, <<-450900, 3904278, 740925>>>>,
              <<0, <<-586986, 3153182, 1628108>>>>, <<0, <<-499623, 2196101, 2497825>>>>,
              <<0, <<-311437, 1254413, 3251328>>>>, <<0, <<-113038, 445800, 3861542>>>>,
              <<0, <<47987, -194830, 4341148>>>>, <<0, <<153773, -674580, 4715111>>>>,
              <<0, <<201771, -1014823, 5007356>>>>
            >>
      [] in = 3 /\ out = 18 ->
            <<
              <<0, <<5014501, -1022506, 202309>>>>, <<0, <<4742290, -707939, 159953>>>>,
              <<0, <<4398818, -270663, 66149>>>>, <<0, <<3964303, 307929, -77928>>>>,
              <<0, <<3417235, 1037340, -260271>>>>, <<0, <<2742797, 1899243, -447736>>>>,
              <<0, <<1951134, 2817734, -574564>>>>, <<0, <<1103050, 3633700, -542446>>>>,
              <<0, <<320618, 4127665, -253979>>>>, <<0, <<-253979, 4127665, 320618>>>>,
              <<0, <<-542446, 3633700, 1103050>>>>, <<0, <<-574564, 2817734, 1951134>>>>,
              <<0, <<-447736, 1899243, 2742797>>>>, <<0, <<-260271, 1037340, 3417235>>>>,
              <<0, <<-77928, 307929, 3964303>>>>, <<0, <<66149, -270663, 4398818>>>>,
              <<0, <<159953, -707939, 4742290>>>>, <<0, <<202309, -1022506, 5014501>>>>
            >>
      [] in = 3 /\ out = 19 ->
            <<
              <<0, <<5020854, -1029304, 202754>>>>, <<0, <<4766140, -736976, 165140>>>>,
              <<0, <<4448750, -335909, 81463>>>>, <<0, <<4052182, 190064, -47942>>>>,
              <<0, <<3558000, 851230, -214926>>>>, <<0, <<2951262, 1639137, -396095>>>>,
              <<0, <<2232703, 2505214, -543613>>>>, <<0, <<1437954, 3337408, -581057>>>>,
              <<0, <<652967, 3960351, -419014>>>>, <<0, <<0, 4194304, 0>>>>,
              <<0, <<-419014, 3960351, 652967>>>>, <<0, <<-581057, 3337408, 1437954>>>>,
              <<0, <<-543613, 2505214, 2232703>>>>, <<0, <<-396095, 1639137, 2951262>>>>,
              <<0, <<-214926, 851230, 3558000>>>>, <<0, <<-47942, 190064, 4052182>>>>,
              <<0, <<81463, -335909, 4448750>>>>, <<0, <<165140, -736976, 4766140>>>>,
              <<0, <<202754, -1029304, 5020854>>>>
            >>
      [] in = 3 /\ out = 20 ->
            <<
              <<0, <<5026539, -1035361, 203127>>>>, <<0, <<4787234, -762464, 169534>>>>,
              <<0, <<4492385, -392563, 94482>>>>, <<0, <<4128107, 88403, -22206>>>>,
              <<0, <<3678608, 690660, -174963>>>>, <<0, <<3129753, 1411622, -347071>>>>,
              <<0, <<2477256, 2220556, -503508>>>>, <<0, <<1740598, 3039405, -585699>>>>,
              <<0, <<977884, 3733781, -517361>>>>, <<0, <<285900, 4140237, -231833>>>>,
              <<0, <<-231833, 4140237, 285900>>>>, <<0, <<-517361, 3733781, 977884>>>>,
              <<0, <<-585699, 3039405, 1740598>>>>, <<0, <<-503508, 2220556, 2477256>>>>,
              <<0, <<-347071, 1411622, 3129753>>>>, <<0, <<-174963, 690660, 3678608>>>>,
              <<0, <<-22206, 88403, 4128107>>>>, <<0, <<94482, -392563, 4492385>>>>,
              <<0, <<169534, -762464, 4787234>>>>, <<0, <<203127, -1035361, 5026539>>>>
            >>
      [] in = 3 /\ out = 21 ->
            <<
              <<0, <<5031656, -1040792, 203440>>>>, <<0, <<4806022, -785004, 173286>>>>,
              <<0, <<4530831, -442160, 105633>>>>, <<0, <<4194304, 0, 0>>>>,
              <<0, <<3782888, 551220, -139804>>>>, <<0, <<3283633, 1212362, -301692>>>>,
              <<0, <<2689767, 1964351, -459814>>>>, <<0, <<2010640, 2753150, -569486>>>>,
              <<0, <<1284207, 3478221, -568124>>>>, <<0, <<583107, 4001722, -390524>>>>,
              <<0, <<0, 4194304, 0>>>>, <<0, <<-390524, 4001722, 583107>>>>,
              <<0, <<-568124, 3478221, 1284207>>>>, <<0, <<-569486, 2753150, 2010640>>>>,
              <<0, <<-459814, 1964351, 2689767>>>>, <<0, <<-301692, 1212362, 3283633>>>>,
              <<0, <<-139804, 551220, 3782888>>>>, <<0, <<0, 0, 4194304>>>>,
              <<0, <<105633, -442160, 4530831>>>>, <<0, <<173286, -785004, 4806022>>>>,
              <<0, <<203440, -1040792, 5031656>>>>
            >>
      [] in = 3 /\ out = 22 ->
            <<
              <<0, <<5036286, -1045688, 203707>>>>, <<0, <<4822861, -805070, 176513>>>>,
              <<0, <<4564951, -485898, 115251>>>>, <<0, <<4252490, -77450, 19263>>>>,
              <<0, <<3873806, 429350, -108853>>>>, <<0, <<3417235, 1037340, -260271>>>>,
              <<0, <<2874961, 1735082, -415739>>>>, <<0, <<2250104, 2485347, -541146>>>>,
              <<0, <<1566574, 3213949, -586219>>>>, <<0, <<876896, 3809676, -492268>>>>,
              <<0, <<257904, 4149566, -213165>>>>, <<0, <<-213165, 4149566, 257904>>>>,
              <<0, <<-492268, 3809676, 876896>>>>, <<0, <<-586219, 3213949, 1566574>>>>,
              <<0, <<-541146, 2485347, 2250104>>>>, <<0, <<-415739, 1735082, 2874961>>>>,
              <<0, <<-260271, 1037340, 3417235>>>>, <<0, <<-108853, 429350, 3873806>>>>,
              <<0, <<19263, -77450, 4252490>>>>, <<0, <<115251, -485898, 4564951>>>>,
              <<0, <<176513, -805070, 4822861>>>>, <<0, <<203707, -1045688, 5036286>>>>
            >>
      [] in = 3 /\ out = 23 ->
            <<
              <<0, <<5040495, -1050125, 203934>>>>, <<0, <<4838038, -823041, 179307>>>>,
              <<0, <<4595431, -524726, 123599>>>>, <<0, <<4304010, -145766, 36060>>>>,
              <<0, <<3953682, 322180, -81558>>>>, <<0, <<3534034, 883024, -222755>>>>,
              <<0, <<3037017, 1530346, -373059>>>>, <<0, <<2462004, 2238640, -506340>>>>,
              <<0, <<1823346, 2953592, -582634>>>>, <<0, <<1157945, 3587856, -551497>>>>,
              <<0, <<526390, 4033082, -365168>>>>, <<0, <<0, 4194304, 0>>>>,
              <<0, <<-365168, 4033082, 526390>>>>, <<0, <<-551497, 3587856, 1157945>>>>,
              <<0, <<-582634, 2953592, 1823346>>>>, <<0, <<-506340, 2238640, 2462004>>>>,
              <<0, <<-373059, 1530346, 3037017>>>>, <<0, <<-222755, 883024, 3534034>>>>,
              <<0, <<-81558, 322180, 3953682>>>>, <<0, <<36060, -145766, 4304010>>>>,
              <<0, <<123599, -524726, 4595431>>>>, <<0, <<179307, -823041, 4838038>>>>,
              <<0, <<203934, -1050125, 5040495>>>>
            >>
      [] in = 3 /\ out = 24 ->
            <<
              <<0, <<5044339, -1054163, 204129>>>>, <<0, <<4851787, -839224, 181741>>>>,
              <<0, <<4622817, -559402, 130889>>>>, <<0, <<4349926, -206403, 50781>>>>,
              <<0, <<4024345, 227384, -57425>>>>, <<0, <<3636820, 746392, -188908>>>>,
              <<0, <<3179502, 1347497, -332695>>>>, <<0, <<2649595, 2013370, -468661>>>>,
              <<0, <<2055041, 2704434, -565171>>>>, <<0, <<1421112, 3353202, -580011>>>>,
              <<0, <<793938, 3868488, -468122>>>>, <<0, <<234861, 4156676, -197233>>>>,
              <<0, <<-197233, 4156676, 234861>>>>, <<0, <<-468122, 3868488, 793938>>>>,
              <<0, <<-580011, 3353202, 1421112>>>>, <<0, <<-565171, 2704434, 2055041>>>>,
              <<0, <<-468661, 2013370, 2649595>>>>, <<0, <<-332695, 1347497, 3179502>>>>,
              <<0, <<-188908, 746392, 3636820>>>>, <<0, <<-57425, 227384, 4024345>>>>,
              <<0, <<50781, -206403, 4349926>>>>, <<0, <<130889, -559402, 4622817>>>>,
              <<0, <<181741, -839224, 4851787>>>>, <<0, <<204129, -1054163, 5044339>>>>
            >>

(* The sum of bytes[i] * weights[i] *)
RECURSIVE WeightedSum(_, _)
WeightedSum(bytes, weights) ==
    IF weights = <<>> THEN 0
    ELSE Head(bytes) * Head(weights) + WeightedSum(Tail(bytes), Tail(weights))

(* Resample.c ImagingResampleHorizontal_8bpc and ImagingResampleVertical_8bpc,
   one byte of one output pixel: ss = 1 << 21, ss += byte * weight,
   clip8(ss >> 22) *)
Convolve(bytes, weights) == CLIP8((2097152 + WeightedSum(bytes, weights)) \div 4194304)

(* Resample.c ImagingResampleInner: the horizontal pass when the width
   changes, then the vertical pass when the height changes, every channel
   alike.  On a single-colour raster every output byte is the input byte
   (the integer weights at a position sum to 2^22 within one or two units),
   which is the first branch, taken for rasters of any size. *)
resample(im, w, h) ==
    IF im.patches = <<>> THEN Uniform(im.mode, w, h, im.bg)
    ELSE LET kh == LanczosCoeffs(im.width, w)
             kv == LanczosCoeffs(im.height, h)
             src == [y \in 0..(im.height - 1) |-> [x \in 0..(im.width - 1) |-> PixelAt(im, x, y)]]
             hor == IF w = im.width THEN src
                    ELSE [y \in 0..(im.height - 1) |-> [x \in 0..(w - 1) |->
                            [c \in DOMAIN im.bg |->
                                Convolve([j \in 1..Len(kh[x + 1][2]) |-> src[y][kh[x + 1][1] + j - 1][c]],
                                         kh[x + 1][2])]]]
             ver == IF h = im.height THEN hor
                    ELSE [y \in 0..(h - 1) |-> [x \in 0..(w - 1) |->
                            [c \in DOMAIN im.bg |->
                                Convolve([j \in 1..Len(kv[y + 1][2]) |-> hor[kv[y + 1][1] + j - 1][x][c]],
                                         kv[y + 1][2])]]]
         IN  FromPixels(im.mode, w, h, ver)

(* Image.resize((w, h), LANCZOS): a copy when the size is unchanged; an RGBA
   image is resampled in premultiplied form (RGBa) and converted back. *)
resize(im, w, h) ==
    IF <<w, h>> = <<im.width, im.height>> THEN im
    ELSE IF im.mode = "RGBA"
         THEN convert(resample(convert(im, "RGBa"), w, h), "RGBA")
         ELSE resample(im, w, h)

(* Image.transpose: ROTATE_90 and ROTATE_270 turn counter-clockwise by 90 and
   270 degrees and swap width and height; ROTATE_180 keeps the size. *)
transpose(im, method) ==
    LET w == im.width
        h == im.height
        turn(r) ==
            CASE method = "ROTATE_90"  -> Rect(r.y0, w - r.x1, r.y1, w - r.x0, r.px)
              [] method = "ROTATE_180" -> Rect(w - r.x1, h - r.y1, w - r.x0, h - r.y0, r.px)
              [] method = "ROTATE_270" -> Rect(h - r.y1, r.x0, h - r.y0, r.x1, r.px)
    IN  [mode |-> im.mode,
         width |-> IF method = "ROTATE_180" THEN w ELSE h,
         height |-> IF method = "ROTATE_180" THEN h ELSE w,
         bg |-> im.bg,
         patches |-> [i \in DOMAIN im.patches |-> turn(im.patches[i])]]

(* Variant of rotate: the canvas keeps its size (no expand), quarter turns
   of a single-colour image leave it as it is *)
rotate_keeping_size(im, angle) ==
    IF angle % 360 = 180 THEN transpose(im, "ROTATE_180") ELSE im

(* Image.rotate: round(math.cos(a), 15) and round(math.sin(a), 15) for
   a = -math.radians(angle), angle = 0..359, entry angle + 1.  An entry is
   <<sc, c2, c1, c0, ss, s2, s1, s0>>: the cosine is sc * 0.c2c1c0 and the
   sine ss * 0.s2s1s0, each of c2.. s0 a group of five decimal digits
   (100000 in the first group stands for 1.0). *)
Trig15 ==
    <<
      <<1, 100000, 0, 0, 1, 0, 0, 0>>, <<1, 99984, 76951, 56391, -1, 1745, 24064, 37284>>,
      <<1, 99939, 8270, 19096, -1, 3489, 94967, 2501>>,
      <<1, 99862, 95347, 54574, -1, 5233, 59562, 42944>>,
      <<1, 99756, 40502, 59824, -1, 6975, 64737, 44125>>,
      <<1, 99619, 46980, 91746, -1, 8715, 57427, 47658>>,
      <<1, 99452, 18953, 68273, -1, 10452, 84632, 67653>>,
      <<1, 99254, 61516, 41322, -1, 12186, 93434, 5147>>,
      <<1, 99026, 80687, 41570, -1, 13917, 31009, 60065>>,
      <<1, 98768, 83405, 95138, -1, 15643, 44650, 40231>>,
      <<1, 98480, 77530, 12208, -1, 17364, 81776, 66930>>,
      <<1, 98162, 71834, 47664, -1, 19080, 89953, 76545>>,
      <<1, 97814, 76007, 33806, -1, 20791, 16908, 17759>>,
      <<1, 97437, 647, 85235, -1, 22495, 10543, 43865>>,
      <<1, 97029, 57262, 75996, -1, 24192, 18955, 99668>>,
      <<1, 96592, 58262, 89068, -1, 25881, 90451, 2521>>,
      <<1, 96126, 16959, 38319, -1, 27563, 73558, 16999>>,
      <<1, 95630, 47559, 63035, -1, 29237, 17047, 22737>>,
      <<1, 95105, 65162, 95154, -1, 30901, 69943, 74947>>,
      <<1, 94551, 85755, 99317, -1, 32556, 81544, 57157>>,
      <<1, 93969, 26207, 85908, -1, 34202, 1433, 25669>>,
      <<1, 93358, 4264, 97202, -1, 35836, 79495, 45300>>,
      <<1, 92718, 38545, 66787, -1, 37460, 65934, 15912>>,
      <<1, 92050, 48534, 52440, -1, 39073, 11284, 89274>>,
      <<1, 91354, 54576, 42601, -1, 40673, 66430, 75800>>,
      <<1, 90630, 77870, 36650, -1, 42261, 82617, 40699>>,
      <<1, 89879, 40462, 99167, -1, 43837, 11467, 89077>>,
      <<1, 89100, 65241, 88368, -1, 45399, 4997, 39547>>,
      <<1, 88294, 75928, 58927, -1, 46947, 15627, 85891>>,
      <<1, 87461, 97071, 39396, -1, 48480, 96202, 46337>>,
      <<1, 86602, 54037, 84439, -1, 50000, 0, 0>>,
      <<1, 85716, 73007, 2112, -1, 51503, 80749, 10054>>,
      <<1, 84804, 80961, 56426, -1, 52991, 92642, 33205>>,
      <<1, 83867, 5679, 45424, -1, 54463, 90350, 15027>>,
      <<1, 82903, 75725, 55042, -1, 55919, 29034, 70747>>,
      <<1, 81915, 20442, 88992, -1, 57357, 64363, 51046>>,
      <<1, 80901, 69943, 74947, -1, 58778, 52522, 92473>>,
      <<1, 79863, 55100, 47293, -1, 60181, 50231, 52048>>,
      <<1, 78801, 7536, 6722, -1, 61566, 14753, 25658>>,
      <<1, 77714, 59614, 56971, -1, 62932, 3910, 49837>>,
      <<1, 76604, 44431, 18978, -1, 64278, 76096, 86539>>,
      <<1, 75470, 95802, 22772, -1, 65605, 90289, 90507>>,
      <<1, 74314, 48254, 77394, -1, 66913, 6063, 58858>>,
      <<1, 73135, 37016, 19170, -1, 68199, 83600, 62498>>,
      <<1, 71933, 98003, 38651, -1, 69465, 83704, 58997>>,
      <<1, 70710, 67811, 86548, -1, 70710, 67811, 86547>>,
      <<1, 69465, 83704, 58997, -1, 71933, 98003, 38651>>,
      <<1, 68199, 83600, 62498, -1, 73135, 37016, 19170>>,
      <<1, 66913, 6063, 58858, -1, 74314, 48254, 77394>>,
      <<1, 65605, 90289, 90507, -1, 75470, 95802, 22772>>,
      <<1, 64278, 76096, 86539, -1, 76604, 44431, 18978>>,
      <<1, 62932, 3910, 49838, -1, 77714, 59614, 56971>>,
      <<1, 61566, 14753, 25658, -1, 78801, 7536, 6722>>,
      <<1, 60181, 50231, 52048, -1, 79863, 55100, 47293>>,
      <<1, 58778, 52522, 92473, -1, 80901, 69943, 74947>>,
      <<1, 57357, 64363, 51046, -1, 81915, 20442, 88992>>,
      <<1, 55919, 29034, 70747, -1, 82903, 75725, 55042>>,
      <<1, 54463, 90350, 15027, -1, 83867, 5679, 45424>>,
      <<1, 52991, 92642, 33205, -1, 84804, 80961, 56426>>,
      <<1, 51503, 80749, 10054, -1, 85716, 73007, 2112>>,
      <<1, 50000, 0, 0, -1, 86602, 54037, 84439>>,
      <<1, 48480, 96202, 46337, -1, 87461, 97071, 39396>>,
      <<1, 46947, 15627, 85891, -1, 88294, 75928, 58927>>,
      <<1, 45399, 4997, 39547, -1, 89100, 65241, 88368>>,
      <<1, 43837, 11467, 89077, -1, 89879, 40462, 99167>>,
      <<1, 42261, 82617, 40699, -1, 90630, 77870, 36650>>,
      <<1, 40673, 66430, 75800, -1, 91354, 54576, 42601>>,
      <<1, 39073, 11284, 89274, -1, 92050, 48534, 52440>>,
      <<1, 37460, 65934, 15912, -1, 92718, 38545, 66787>>,
      <<1, 35836, 79495, 45300, -1, 93358, 4264, 97202>>,
      <<1, 34202, 1433, 25669, -1, 93969, 26207, 85908>>,
      <<1, 32556, 81544, 57157, -1, 94551, 85755, 99317>>,
      <<1, 30901, 69943, 74947, -1, 95105, 65162, 95154>>,
      <<1, 29237, 17047, 22737, -1, 95630, 47559, 63035>>,
      <<1, 27563, 73558, 16999, -1, 96126, 16959, 38319>>,
      <<1, 25881, 90451, 2521, -1, 96592, 58262, 89068>>,
      <<1, 24192, 18955, 99668, -1, 97029, 57262, 75996>>,
      <<1, 22495, 10543, 43865, -1, 97437, 647, 85235>>,
      <<1, 20791, 16908, 17759, -1, 97814, 76007, 33806>>,
      <<1, 19080, 89953, 76545, -1, 98162, 71834, 47664>>,
      <<1, 17364, 81776, 66930, -1, 98480, 77530, 12208>>,
      <<1, 15643, 44650, 40231, -1, 98768, 83405, 95138>>,
      <<1, 13917, 31009, 60065, -1, 99026, 80687, 41570>>,
      <<1, 12186, 93434, 5147, -1, 99254, 61516, 41322>>,
      <<1, 10452, 84632, 67653, -1, 99452, 18953, 68273>>,
      <<1, 8715, 57427, 47658, -1, 99619, 46980, 91746>>,
      <<1, 6975, 64737, 44125, -1, 99756, 40502, 59824>>,
      <<1, 5233, 59562, 42944, -1, 99862, 95347, 54574>>,
      <<1, 3489, 94967, 2501, -1, 99939, 8270, 19096>>,
      <<1, 1745, 24064, 37284, -1, 99984, 76951, 56391>>, <<1, 0, 0, 0, -1, 100000, 0, 0>>,
      <<-1, 1745, 24064, 37283, -1, 99984, 76951, 56391>>,
      <<-1, 3489, 94967, 2501, -1, 99939, 8270, 19096>>,
      <<-1, 5233, 59562, 42944, -1, 99862, 95347, 54574>>,
      <<-1, 6975, 64737, 44125, -1, 99756, 40502, 59824>>,
      <<-1, 8715, 57427, 47658, -1, 99619, 46980, 91746>>,
      <<-1, 10452, 84632, 67654, -1, 99452, 18953, 68273>>,
      <<-1, 12186, 93434, 5147, -1, 99254, 61516, 41322>>,
      <<-1, 13917, 31009, 60065, -1, 99026, 80687, 41570>>,
      <<-1, 15643, 44650, 40231, -1, 98768, 83405, 95138>>,
      <<-1, 17364, 81776, 66930, -1, 98480, 77530, 12208>>,
      <<-1, 19080, 89953, 76545, -1, 98162, 71834, 47664>>,
      <<-1, 20791, 16908, 17759, -1, 97814, 76007, 33806>>,
      <<-1, 22495, 10543, 43865, -1, 97437, 647, 85235>>,
      <<-1, 24192, 18955, 99668, -1, 97029, 57262, 75996>>,
      <<-1, 25881, 90451, 2521, -1, 96592, 58262, 89068>>,
      <<-1, 27563, 73558, 16999, -1, 96126, 16959, 38319>>,
      <<-1, 29237, 17047, 22737, -1, 95630, 47559, 63036>>,
      <<-1, 30901, 69943, 74947, -1, 95105, 65162, 95154>>,
      <<-1, 32556, 81544, 57157, -1, 94551, 85755, 99317>>,
      <<-1, 34202, 1433, 25669, -1, 93969, 26207, 85908>>,
      <<-1, 35836, 79495, 45300, -1, 93358, 4264, 97202>>,
      <<-1, 37460, 65934, 15912, -1, 92718, 38545, 66787>>,
      <<-1, 39073, 11284, 89274, -1, 92050, 48534, 52440>>,
      <<-1, 40673, 66430, 75800, -1, 91354, 54576, 42601>>,
      <<-1, 42261, 82617, 40699, -1, 90630, 77870, 36650>>,
      <<-1, 43837, 11467, 89078, -1, 89879, 40462, 99167>>,
      <<-1, 45399, 4997, 39547, -1, 89100, 65241, 88368>>,
      <<-1, 46947, 15627, 85891, -1, 88294, 75928, 58927>>,
      <<-1, 48480, 96202, 46337, -1, 87461, 97071, 39396>>,
      <<-1, 50000, 0, 0, -1, 86602, 54037, 84439>>,
      <<-1, 51503, 80749, 10054, -1, 85716, 73007, 2112>>,
      <<-1, 52991, 92642, 33205, -1, 84804, 80961, 56426>>,
      <<-1, 54463, 90350, 15027, -1, 83867, 5679, 45424>>,
      <<-1, 55919, 29034, 70747, -1, 82903, 75725, 55042>>,
      <<-1, 57357, 64363, 51046, -1, 81915, 20442, 88992>>,
      <<-1, 58778, 52522, 92473, -1, 80901, 69943, 74947>>,
      <<-1, 60181, 50231, 52048, -1, 79863, 55100, 47293>>,
      <<-1, 61566, 14753, 25658, -1, 78801, 7536, 6722>>,
      <<-1, 62932, 3910, 49837, -1, 77714, 59614, 56971>>,
      <<-1, 64278, 76096, 86539, -1, 76604, 44431, 18978>>,
      <<-1, 65605, 90289, 90507, -1, 75470, 95802, 22772>>,
      <<-1, 66913, 6063, 58858, -1, 74314, 48254, 77394>>,
      <<-1, 68199, 83600, 62498, -1, 73135, 37016, 19171>>,
      <<-1, 69465, 83704, 58997, -1, 71933, 98003, 38651>>,
      <<-1, 70710, 67811, 86547, -1, 70710, 67811, 86548>>,
      <<-1, 71933, 98003, 38651, -1, 69465, 83704, 58997>>,
      <<-1, 73135, 37016, 19170, -1, 68199, 83600, 62499>>,
      <<-1, 74314, 48254, 77394, -1, 66913, 6063, 58858>>,
      <<-1, 75470, 95802, 22772, -1, 65605, 90289, 90507>>,
      <<-1, 76604, 44431, 18978, -1, 64278, 76096, 86539>>,
      <<-1, 77714, 59614, 56971, -1, 62932, 3910, 49837>>,
      <<-1, 78801, 7536, 6722, -1, 61566, 14753, 25658>>,
      <<-1, 79863, 55100, 47293, -1, 60181, 50231, 52048>>,
      <<-1, 80901, 69943, 74947, -1, 58778, 52522, 92473>>,
      <<-1, 81915, 20442, 88992, -1, 57357, 64363, 51046>>,
      <<-1, 82903, 75725, 55042, -1, 55919, 29034, 70747>>,
      <<-1, 83867, 5679, 45424, -1, 54463, 90350, 15027>>,
      <<-1, 84804, 80961, 56426, -1, 52991, 92642, 33205>>,
      <<-1, 85716, 73007, 2112, -1, 51503, 80749, 10054>>,
      <<-1, 86602, 54037, 84439, -1, 50000, 0, 0>>,
      <<-1, 87461, 97071, 39396, -1, 48480, 96202, 46337>>,
      <<-1, 88294, 75928, 58927, -1, 46947, 15627, 85891>>,
      <<-1, 89100, 65241, 88368, -1, 45399, 4997, 39547>>,
      <<-1, 89879, 40462, 99167, -1, 43837, 11467, 89077>>,
      <<-1, 90630, 77870, 36650, -1, 42261, 82617, 40699>>,
      <<-1, 91354, 54576, 42601, -1, 40673, 66430, 75800>>,
      <<-1, 92050, 48534, 52440, -1, 39073, 11284, 89274>>,
      <<-1, 92718, 38545, 66787, -1, 37460, 65934, 15912>>,
      <<-1, 93358, 4264, 97202, -1, 35836, 79495, 45300>>,
      <<-1, 93969, 26207, 85908, -1, 34202, 1433, 25669>>,
      <<-1, 94551, 85755, 99317, -1, 32556, 81544, 57157>>,
      <<-1, 95105, 65162, 95154, -1, 30901, 69943, 74948>>,
      <<-1, 95630, 47559, 63036, -1, 29237, 17047, 22737>>,
      <<-1, 96126, 16959, 38319, -1, 27563, 73558, 16999>>,
      <<-1, 96592, 58262, 89068, -1, 25881, 90451, 2521>>,
      <<-1, 97029, 57262, 75996, -1, 24192, 18955, 99668>>,
      <<-1, 97437, 647, 85235, -1, 22495, 10543, 43865>>,
      <<-1, 97814, 76007, 33806, -1, 20791, 16908, 17759>>,
      <<-1, 98162, 71834, 47664, -1, 19080, 89953, 76545>>,
      <<-1, 98480, 77530, 12208, -1, 17364, 81776, 66930>>,
      <<-1, 98768, 83405, 95138, -1, 15643, 44650, 40231>>,
      <<-1, 99026, 80687, 41570, -1, 13917, 31009, 60065>>,
      <<-1, 99254, 61516, 41322, -1, 12186, 93434, 5148>>,
      <<-1, 99452, 18953, 68273, -1, 10452, 84632, 67654>>,
      <<-1, 99619, 46980, 91746, -1, 8715, 57427, 47658>>,
      <<-1, 99756, 40502, 59824, -1, 6975, 64737, 44126>>,
      <<-1, 99862, 95347, 54574, -1, 5233, 59562, 42944>>,
      <<-1, 99939, 8270, 19096, -1, 3489, 94967, 2501>>,
      <<-1, 99984, 76951, 56391, -1, 1745, 24064, 37283>>, <<-1, 100000, 0, 0, 1, 0, 0, 0>>,
      <<-1, 99984, 76951, 56391, 1, 1745, 24064, 37284>>,
      <<-1, 99939, 8270, 19096, 1, 3489, 94967, 2501>>,
      <<-1, 99862, 95347, 54574, 1, 5233, 59562, 42944>>,
      <<-1, 99756, 40502, 59824, 1, 6975, 64737, 44125>>,
      <<-1, 99619, 46980, 91746, 1, 8715, 57427, 47658>>,
      <<-1, 99452, 18953, 68273, 1, 10452, 84632, 67653>>,
      <<-1, 99254, 61516, 41322, 1, 12186, 93434, 5147>>,
      <<-1, 99026, 80687, 41570, 1, 13917, 31009, 60066>>,
      <<-1, 98768, 83405, 95138, 1, 15643, 44650, 40231>>,
      <<-1, 98480, 77530, 12208, 1, 17364, 81776, 66930>>,
      <<-1, 98162, 71834, 47664, 1, 19080, 89953, 76545>>,
      <<-1, 97814, 76007, 33806, 1, 20791, 16908, 17760>>,
      <<-1, 97437, 647, 85235, 1, 22495, 10543, 43865>>,
      <<-1, 97029, 57262, 75996, 1, 24192, 18955, 99668>>,
      <<-1, 96592, 58262, 89068, 1, 25881, 90451, 2521>>,
      <<-1, 96126, 16959, 38319, 1, 27563, 73558, 16999>>,
      <<-1, 95630, 47559, 63035, 1, 29237, 17047, 22737>>,
      <<-1, 95105, 65162, 95154, 1, 30901, 69943, 74947>>,
      <<-1, 94551, 85755, 99317, 1, 32556, 81544, 57157>>,
      <<-1, 93969, 26207, 85908, 1, 34202, 1433, 25669>>,
      <<-1, 93358, 4264, 97202, 1, 35836, 79495, 45300>>,
      <<-1, 92718, 38545, 66787, 1, 37460, 65934, 15912>>,
      <<-1, 92050, 48534, 52440, 1, 39073, 11284, 89274>>,
      <<-1, 91354, 54576, 42601, 1, 40673, 66430, 75800>>,
      <<-1, 90630, 77870, 36650, 1, 42261, 82617, 40699>>,
      <<-1, 89879, 40462, 99167, 1, 43837, 11467, 89077>>,
      <<-1, 89100, 65241, 88368, 1, 45399, 4997, 39547>>,
      <<-1, 88294, 75928, 58927, 1, 46947, 15627, 85891>>,
      <<-1, 87461, 97071, 39396, 1, 48480, 96202, 46337>>,
      <<-1, 86602, 54037, 84439, 1, 50000, 0, 0>>,
      <<-1, 85716, 73007, 2112, 1, 51503, 80749, 10054>>,
      <<-1, 84804, 80961, 56426, 1, 52991, 92642, 33205>>,
      <<-1, 83867, 5679, 45424, 1, 54463, 90350, 15027>>,
      <<-1, 82903, 75725, 55042, 1, 55919, 29034, 70747>>,
      <<-1, 81915, 20442, 88992, 1, 57357, 64363, 51046>>,
      <<-1, 80901, 69943, 74948, 1, 58778, 52522, 92473>>,
      <<-1, 79863, 55100, 47293, 1, 60181, 50231, 52048>>,
      <<-1, 78801, 7536, 6722, 1, 61566, 14753, 25658>>,
      <<-1, 77714, 59614, 56971, 1, 62932, 3910, 49838>>,
      <<-1, 76604, 44431, 18978, 1, 64278, 76096, 86539>>,
      <<-1, 75470, 95802, 22772, 1, 65605, 90289, 90507>>,
      <<-1, 74314, 48254, 77394, 1, 66913, 6063, 58858>>,
      <<-1, 73135, 37016, 19171, 1, 68199, 83600, 62498>>,
      <<-1, 71933, 98003, 38651, 1, 69465, 83704, 58997>>,
      <<-1, 70710, 67811, 86548, 1, 70710, 67811, 86547>>,
      <<-1, 69465, 83704, 58997, 1, 71933, 98003, 38651>>,
      <<-1, 68199, 83600, 62499, 1, 73135, 37016, 19170>>,
      <<-1, 66913, 6063, 58858, 1, 74314, 48254, 77394>>,
      <<-1, 65605, 90289, 90507, 1, 75470, 95802, 22772>>,
      <<-1, 64278, 76096, 86539, 1, 76604, 44431, 18978>>,
      <<-1, 62932, 3910, 49838, 1, 77714, 59614, 56971>>,
      <<-1, 61566, 14753, 25658, 1, 78801, 7536, 6722>>,
      <<-1, 60181, 50231, 52048, 1, 79863, 55100, 47293>>,
      <<-1, 58778, 52522, 92473, 1, 80901, 69943, 74947>>,
      <<-1, 57357, 64363, 51046, 1, 81915, 20442, 88992>>,
      <<-1, 55919, 29034, 70747, 1, 82903, 75725, 55042>>,
      <<-1, 54463, 90350, 15027, 1, 83867, 5679, 45424>>,
      <<-1, 52991, 92642, 33205, 1, 84804, 80961, 56426>>,
      <<-1, 51503, 80749, 10054, 1, 85716, 73007, 2112>>,
      <<-1, 50000, 0, 0, 1, 86602, 54037, 84438>>,
      <<-1, 48480, 96202, 46337, 1, 87461, 97071, 39396>>,
      <<-1, 46947, 15627, 85891, 1, 88294, 75928, 58927>>,
      <<-1, 45399, 4997, 39547, 1, 89100, 65241, 88368>>,
      <<-1, 43837, 11467, 89078, 1, 89879, 40462, 99167>>,
      <<-1, 42261, 82617, 40699, 1, 90630, 77870, 36650>>,
      <<-1, 40673, 66430, 75800, 1, 91354, 54576, 42601>>,
      <<-1, 39073, 11284, 89274, 1, 92050, 48534, 52440>>,
      <<-1, 37460, 65934, 15912, 1, 92718, 38545, 66787>>,
      <<-1, 35836, 79495, 45301, 1, 93358, 4264, 97202>>,
      <<-1, 34202, 1433, 25669, 1, 93969, 26207, 85908>>,
      <<-1, 32556, 81544, 57157, 1, 94551, 85755, 99317>>,
      <<-1, 30901, 69943, 74948, 1, 95105, 65162, 95154>>,
      <<-1, 29237, 17047, 22737, 1, 95630, 47559, 63035>>,
      <<-1, 27563, 73558, 16999, 1, 96126, 16959, 38319>>,
      <<-1, 25881, 90451, 2521, 1, 96592, 58262, 89068>>,
      <<-1, 24192, 18955, 99668, 1, 97029, 57262, 75996>>,
      <<-1, 22495, 10543, 43865, 1, 97437, 647, 85235>>,
      <<-1, 20791, 16908, 17760, 1, 97814, 76007, 33806>>,
      <<-1, 19080, 89953, 76545, 1, 98162, 71834, 47664>>,
      <<-1, 17364, 81776, 66930, 1, 98480, 77530, 12208>>,
      <<-1, 15643, 44650, 40231, 1, 98768, 83405, 95138>>,
      <<-1, 13917, 31009, 60066, 1, 99026, 80687, 41570>>,
      <<-1, 12186, 93434, 5147, 1, 99254, 61516, 41322>>,
      <<-1, 10452, 84632, 67653, 1, 99452, 18953, 68273>>,
      <<-1, 8715, 57427, 47658, 1, 99619, 46980, 91746>>,
      <<-1, 6975, 64737, 44126, 1, 99756, 40502, 59824>>,
      <<-1, 5233, 59562, 42944, 1, 99862, 95347, 54574>>,
      <<-1, 3489, 94967, 2501, 1, 99939, 8270, 19096>>,
      <<-1, 1745, 24064, 37283, 1, 99984, 76951, 56391>>, <<1, 0, 0, 0, 1, 100000, 0, 0>>,
      <<1, 1745, 24064, 37283, 1, 99984, 76951, 56391>>,
      <<1, 3489, 94967, 2501, 1, 99939, 8270, 19096>>,
      <<1, 5233, 59562, 42944, 1, 99862, 95347, 54574>>,
      <<1, 6975, 64737, 44125, 1, 99756, 40502, 59824>>,
      <<1, 8715, 57427, 47658, 1, 99619, 46980, 91746>>,
      <<1, 10452, 84632, 67653, 1, 99452, 18953, 68273>>,
      <<1, 12186, 93434, 5148, 1, 99254, 61516, 41322>>,
      <<1, 13917, 31009, 60065, 1, 99026, 80687, 41570>>,
      <<1, 15643, 44650, 40231, 1, 98768, 83405, 95138>>,
      <<1, 17364, 81776, 66930, 1, 98480, 77530, 12208>>,
      <<1, 19080, 89953, 76545, 1, 98162, 71834, 47664>>,
      <<1, 20791, 16908, 17759, 1, 97814, 76007, 33806>>,
      <<1, 22495, 10543, 43865, 1, 97437, 647, 85235>>,
      <<1, 24192, 18955, 99667, 1, 97029, 57262, 75997>>,
      <<1, 25881, 90451, 2520, 1, 96592, 58262, 89068>>,
      <<1, 27563, 73558, 16999, 1, 96126, 16959, 38319>>,
      <<1, 29237, 17047, 22737, 1, 95630, 47559, 63035>>,
      <<1, 30901, 69943, 74947, 1, 95105, 65162, 95154>>,
      <<1, 32556, 81544, 57156, 1, 94551, 85755, 99317>>,
      <<1, 34202, 1433, 25669, 1, 93969, 26207, 85908>>,
      <<1, 35836, 79495, 45300, 1, 93358, 4264, 97202>>,
      <<1, 37460, 65934, 15912, 1, 92718, 38545, 66787>>,
      <<1, 39073, 11284, 89273, 1, 92050, 48534, 52440>>,
      <<1, 40673, 66430, 75800, 1, 91354, 54576, 42601>>,
      <<1, 42261, 82617, 40700, 1, 90630, 77870, 36650>>,
      <<1, 43837, 11467, 89077, 1, 89879, 40462, 99167>>,
      <<1, 45399, 4997, 39547, 1, 89100, 65241, 88368>>,
      <<1, 46947, 15627, 85890, 1, 88294, 75928, 58927>>,
      <<1, 48480, 96202, 46337, 1, 87461, 97071, 39396>>,
      <<1, 50000, 0, 0, 1, 86602, 54037, 84439>>, <<1, 51503, 80749, 10054, 1, 85716, 73007, 2112>>,
      <<1, 52991, 92642, 33205, 1, 84804, 80961, 56426>>,
      <<1, 54463, 90350, 15027, 1, 83867, 5679, 45424>>,
      <<1, 55919, 29034, 70747, 1, 82903, 75725, 55042>>,
      <<1, 57357, 64363, 51046, 1, 81915, 20442, 88992>>,
      <<1, 58778, 52522, 92473, 1, 80901, 69943, 74948>>,
      <<1, 60181, 50231, 52048, 1, 79863, 55100, 47293>>,
      <<1, 61566, 14753, 25659, 1, 78801, 7536, 6722>>,
      <<1, 62932, 3910, 49838, 1, 77714, 59614, 56971>>,
      <<1, 64278, 76096, 86539, 1, 76604, 44431, 18978>>,
      <<1, 65605, 90289, 90507, 1, 75470, 95802, 22772>>,
      <<1, 66913, 6063, 58858, 1, 74314, 48254, 77395>>,
      <<1, 68199, 83600, 62499, 1, 73135, 37016, 19170>>,
      <<1, 69465, 83704, 58997, 1, 71933, 98003, 38651>>,
      <<1, 70710, 67811, 86547, 1, 70710, 67811, 86548>>,
      <<1, 71933, 98003, 38651, 1, 69465, 83704, 58998>>,
      <<1, 73135, 37016, 19171, 1, 68199, 83600, 62498>>,
      <<1, 74314, 48254, 77394, 1, 66913, 6063, 58858>>,
      <<1, 75470, 95802, 22772, 1, 65605, 90289, 90507>>,
      <<1, 76604, 44431, 18978, 1, 64278, 76096, 86540>>,
      <<1, 77714, 59614, 56971, 1, 62932, 3910, 49838>>,
      <<1, 78801, 7536, 6722, 1, 61566, 14753, 25658>>,
      <<1, 79863, 55100, 47293, 1, 60181, 50231, 52048>>,
      <<1, 80901, 69943, 74947, 1, 58778, 52522, 92473>>,
      <<1, 81915, 20442, 88992, 1, 57357, 64363, 51046>>,
      <<1, 82903, 75725, 55042, 1, 55919, 29034, 70747>>,
      <<1, 83867, 5679, 45424, 1, 54463, 90350, 15027>>,
      <<1, 84804, 80961, 56426, 1, 52991, 92642, 33205>>,
      <<1, 85716, 73007, 2112, 1, 51503, 80749, 10054>>, <<1, 86602, 54037, 84438, 1, 50000, 0, 0>>,
      <<1, 87461, 97071, 39396, 1, 48480, 96202, 46337>>,
      <<1, 88294, 75928, 58927, 1, 46947, 15627, 85891>>,
      <<1, 89100, 65241, 88368, 1, 45399, 4997, 39547>>,
      <<1, 89879, 40462, 99167, 1, 43837, 11467, 89078>>,
      <<1, 90630, 77870, 36650, 1, 42261, 82617, 40699>>,
      <<1, 91354, 54576, 42601, 1, 40673, 66430, 75800>>,
      <<1, 92050, 48534, 52440, 1, 39073, 11284, 89274>>,
      <<1, 92718, 38545, 66787, 1, 37460, 65934, 15912>>,
      <<1, 93358, 4264, 97202, 1, 35836, 79495, 45301>>,
      <<1, 93969, 26207, 85908, 1, 34202, 1433, 25669>>,
      <<1, 94551, 85755, 99317, 1, 32556, 81544, 57157>>,
      <<1, 95105, 65162, 95154, 1, 30901, 69943, 74948>>,
      <<1, 95630, 47559, 63035, 1, 29237, 17047, 22737>>,
      <<1, 96126, 16959, 38319, 1, 27563, 73558, 16999>>,
      <<1, 96592, 58262, 89068, 1, 25881, 90451, 2521>>,
      <<1, 97029, 57262, 75996, 1, 24192, 18955, 99668>>,
      <<1, 97437, 647, 85235, 1, 22495, 10543, 43865>>,
      <<1, 97814, 76007, 33806, 1, 20791, 16908, 17760>>,
      <<1, 98162, 71834, 47664, 1, 19080, 89953, 76545>>,
      <<1, 98480, 77530, 12208, 1, 17364, 81776, 66930>>,
      <<1, 98768, 83405, 95138, 1, 15643, 44650, 40231>>,
      <<1, 99026, 80687, 41570, 1, 13917, 31009, 60066>>,
      <<1, 99254, 61516, 41322, 1, 12186, 93434, 5147>>,
      <<1, 99452, 18953, 68273, 1, 10452, 84632, 67653>>,
      <<1, 99619, 46980, 91746, 1, 8715, 57427, 47658>>,
      <<1, 99756, 40502, 59824, 1, 6975, 64737, 44126>>,
      <<1, 99862, 95347, 54574, 1, 5233, 59562, 42944>>,
      <<1, 99939, 8270, 19096, 1, 3489, 94967, 2501>>,
      <<1, 99984, 76951, 56391, 1, 1745, 24064, 37284>>
    >>

(* The 15-decimal number with digit groups d2, d1, d0, times 10^15, written
   over 5^15 = 30517578125: <<q, r1, r0>> with
   d2 * 10^10 + d1 * 10^5 + d0 = q * 5^15 + r1 * 10^5 + r0 and
   0 <= r1 * 10^5 + r0 < 5^15, 0 <= r0 < 10^5.  (10^10 / 5^15 = 1024 / 3125
   and 5^15 / 3125 = 5^10 = 97 * 10^5 + 65625.) *)
Reduce5(d2, d1, d0) ==
    LET q == (d2 * 1024) \div 3125
        t == (d2 * 1024) % 3125
        lo == 65625 * t + d0
        r1 == 97 * t + d1 + lo \div 100000
        r0 == lo % 100000
        over == r1 > 305175 \/ (r1 = 305175 /\ r0 >= 78125)
    IN  IF ~over THEN <<q, r1, r0>>
        ELSE IF r0 >= 78125 THEN <<q + 1, r1 - 305175, r0 - 78125>>
        ELSE <<q + 1, r1 - 305176, r0 + 21875>>

(* floor((R1 * 10^5 + R0) / 5^15), the numerator too large for one integer:
   with q = floor(r1 / 305175) the quotient is q - 1, q or q + 1, by the sign
   of the rest (u1 * 10^5 + u0) and of the rest less 5^15 *)
FloorP5(R1, R0) ==
    LET r1 == R1 + R0 \div 100000
        r0 == R0 % 100000
        q == r1 \div 305175
        u1 == r1 - 305175 * q
        u0 == r0 - 78125 * q
        below == u1 < -(u0 \div 100000)
        above == u1 - 305175 >= -((u0 - 78125) \div 100000)
    IN  IF below THEN q - 1 ELSE IF above THEN q + 1 ELSE q

(* floor((kc * C + ks * S) / 5^15), C and S the cosine and sine of Trig15 for
   angle a times 10^15.  (10^15 = 2^15 * 5^15: a product with a number of
   15 decimals, times 2^15, is this quotient.) *)
FloorLin5(kc, ks, a) ==
    LET t == Trig15[a + 1]
        c == Reduce5(t[2], t[3], t[4])
        s == Reduce5(t[6], t[7], t[8])
        mc == kc * t[1]
        ms == ks * t[5]
    IN  mc * c[1] + ms * s[1] + FloorP5(mc * c[2] + ms * s[2], mc * c[3] + ms * s[3])

(* floor((kc * |C| + ks * |S|) / 5^15) *)
FloorLinAbs5(kc, ks, a) == FloorLin5(kc * Trig15[a + 1][1], ks * Trig15[a + 1][5], a)

(* Image.rotate(angle, expand=True) on a w x h image, 0 < a < 360 not a
   multiple of 90: the matrix (c, s, m2, -s, c, m5) that maps an output
   coordinate to the input coordinate turns about the centre (w/2, h/2); the
   output is as wide as ceil(max) - floor(min) of the transformed corners
   w/2 +- (|c| w + |s| h)/2 and as high as that of h/2 +- (|s| w + |c| h)/2,
   and the matrix is recentred on it.  Geometry.c affine_fixed then takes
   a0 = FIX(c), a1 = FIX(s), a3 = FIX(-s), a4 = FIX(c),
   a2 = FIX(m2 + c/2 + s/2), a5 = FIX(m5 - s/2 + c/2), FIX(v) =
   floor(v * 65536 + 0.5), where m2 + c/2 + s/2 = (c (1 - nw) + s (1 - nh) + w) / 2
   and m5 - s/2 + c/2 = (-s (1 - nw) + c (1 - nh) + h) / 2. *)
RotateGeometry(a, w, h) ==
    LET px == FloorLinAbs5(-w, -h, a)
        py == FloorLinAbs5(-h, -w, a)
        nw == -((px - 32768 * w) \div 65536) - ((px + 32768 * w) \div 65536)
        nh == -((py - 32768 * h) \div 65536) - ((py + 32768 * h) \div 65536)
    IN  [width |-> nw, height |-> nh,
         a0 |-> (FloorLin5(4, 0, a) + 1) \div 2,
         a1 |-> (FloorLin5(0, 4, a) + 1) \div 2,
         a2 |-> 32768 * w + (FloorLin5(2 * (1 - nw), 2 * (1 - nh), a) + 1) \div 2,
         a3 |-> (FloorLin5(0, -4, a) + 1) \div 2,
         a4 |-> (FloorLin5(4, 0, a) + 1) \div 2,
         a5 |-> 32768 * h + (FloorLin5(2 * (1 - nh), -2 * (1 - nw), a) + 1) \div 2]

(* Geometry.c affine_fixed, nearest neighbour: output pixel (x, y) is the
   input pixel at ((a2 + a0 x + a1 y) >> 16, (a5 + a3 x + a4 y) >> 16) when
   that lies in the input, and the fill, transparent black, when not. *)
affine_fixed(im, g) ==
    LET xin(x, y) == (g.a2 + g.a0 * x + g.a1 * y) \div 65536
        yin(x, y) == (g.a5 + g.a3 * x + g.a4 * y) \div 65536
        inside(x, y) == /\ 0 <= xin(x, y) /\ xin(x, y) < im.width
                        /\ 0 <= yin(x, y) /\ yin(x, y) < im.height
        px == [y \in 0..(g.height - 1) |-> [x \in 0..(g.width - 1) |->
                 IF inside(x, y) THEN PixelAt(im, xin(x, y), yin(x, y)) ELSE <<0, 0, 0, 0>>]]
    IN  FromPixels(im.mode, g.width, g.height, px)

(* Image.rotate(angle, expand=True): angle % 360, then the transposes of
   Pillow for 0, 180, 90 and 270 degrees and the affine transform for every
   other angle. *)
rotate(im, angle) ==
    LET a == angle % 360
    IN  CASE a = 0   -> im
          [] a = 180 -> transpose(im, "ROTATE_180")
          [] a = 90  -> transpose(im, "ROTATE_90")
          [] a = 270 -> transpose(im, "ROTATE_270")
          [] OTHER   -> affine_fixed(im, RotateGeometry(a, im.width, im.height))

(* Image.new(mode, size, color) *)
new(mode, w, h, color) == Uniform(mode, w, h, color)

(* AlphaComposite.c: src over dst, one pixel *)
composite_pixel(dst, src) ==
    IF src[4] = 0 THEN dst
    ELSE LET blend == dst[4] * (255 - src[4])
             outa255 == src[4] * 255 + blend
             coef1 == (src[4] * 255 * 255 * 128) \div outa255
             coef2 == 255 * 128 - coef1
             ch(c) == SHIFTFORDIV255(src[c] * coef1 + dst[c] * coef2 + 128 * 128) \div 128
         IN  <<ch(1), ch(2), ch(3), SHIFTFORDIV255(outa255 + 128)>>

(* Variant of paste_pixel: the mask is ignored, the source pixel is copied *)
paste_pixel_unmasked(out, in) == [c \in DOMAIN out |-> in[c]]

(* Paste.c paste_mask_RGBA: every byte of the destination pixel, the alpha
   byte of an RGBA destination included, is blended with the source byte,
   weighted by the mask's alpha; the mask is the pasted image itself. *)
paste_pixel(out, in) == [c \in DOMAIN out |-> BLEND(in[4], out[c], in[c])]

(* The pixel that operation op leaves where pixel s of the second image
   meets pixel d of the first *)
combine_pixel(op, d, s) ==
    IF op = "alpha_composite" THEN composite_pixel(d, s) ELSE paste_pixel(d, s)

(* Layer by layer, the pixels of im laid at (dx, dy) over out, each combined
   with the pixel of out below it by operation op; clipped to out. *)
PairLayers(out, im, dx, dy, op) ==
    LET dl == Layers(out)
        sl == Layers(im)
        nd == Len(dl)
        pair(k) ==
            LET s == sl[((k - 1) \div nd) + 1]
                d == dl[((k - 1) % nd) + 1]
            IN  Rect(Max(d.x0, s.x0 + dx), Max(d.y0, s.y0 + dy),
                     Min(d.x1, s.x1 + dx), Min(d.y1, s.y1 + dy),
                     combine_pixel(op, d.px, s.px))
    IN  [k \in 1..(nd * Len(sl)) |-> pair(k)]

(* Image.alpha_composite(im1, im2): a new image, im2 over im1 *)
alpha_composite(im1, im2) ==
    Canon([im1 EXCEPT !.patches = im1.patches \o PairLayers(im1, im2, 0, 0, "alpha_composite")])

(* Variant of paste: the destination grows to hold the whole pasted image *)
paste_growing(out, im, x, y) ==
    LET grown == [out EXCEPT !.width = Max(out.width, x + im.width),
                             !.height = Max(out.height, y + im.height)]
    IN  Canon([grown EXCEPT !.patches = out.patches \o PairLayers(grown, im, x, y, "paste")])

(* Variant of paste: a negative corner is moved to 0 without cropping the
   pasted image accordingly *)
paste_uncropped(out, im, x, y) ==
    Canon([out EXCEPT !.patches =
              out.patches \o PairLayers(out, im, Max(x, 0), Max(y, 0), "paste")])

(* Image.paste(im, (x, y), im): im is laid with its top-left corner at (x, y)
   and clipped to the destination (Paste.c ImagingPaste). *)
paste(out, im, x, y) ==
    Canon([out EXCEPT !.patches = out.patches \o PairLayers(out, im, x, y, "paste")])

----------------------------------------------------------------------------
(* add_santa_hat, lines 39-63, as pure steps *)

(* Variant of HatWidth: the product rounded to nearest (half up) *)
HatWidthRounded(base_width, scale) == (2 * base_width * scale + ScaleDen) \div (2 * ScaleDen)

(* line 43: int(profile_image.width * hat_scale), hat_scale the double
   nearest to scale / ScaleDen *)
HatWidth(base_width, scale) == IntOfProduct(base_width, scale, ScaleDen)

(* line 44: int(santa_hat.height * (hat_width / santa_hat.width)) *)
HatHeight(overlay_height, width, overlay_width) == IntOfProduct(overlay_height, width, overlay_width)

(* Variant of FloorDiv: division that truncates toward zero, as in C *)
FloorDivTruncating(a, b) == IF a >= 0 THEN a \div b ELSE -((-a) \div b)

(* Python //: floor division (divisor > 0) *)
FloorDiv(a, b) == a \div b

(* lines 51-55: centred horizontally plus offset; the vertical offset as is *)
HatPosition(base_width, rotated_width, offset_x, offset_y) ==
    <<FloorDiv(base_width - rotated_width, 2) + offset_x, offset_y>>

----------------------------------------------------------------------------
(* Inputs *)

Obj == {"arg_profile", "arg_hat", "profile_rgba", "hat_rgba", "hat_resized",
        "hat_rotated", "blank", "combined"}

White == <<255, 255, 255, 255>>
Red == <<255, 0, 0, 255>>

(* Uploaded portraits: a JPEG-like RGB image, or an RGBA image whose
   bottom-right pixel is half-transparent blue on opaque white. *)
BaseImage(kind, w, h) ==
    IF kind = "RGB" THEN Uniform("RGB", w, h, <<250, 240, 230>>)
    ELSE Canon([Uniform("RGBA", w, h, White) EXCEPT
                   !.patches = <<Rect(w - 1, h - 1, w, h, <<0, 0, 255, 128>>)>>])

(* Overlays: opaque, half-transparent and fully transparent single colours,
   and an opaque red image whose left column is green. *)
HatImage(kind, w, h) ==
    CASE kind = "opaque" -> Uniform("RGBA", w, h, Red)
      [] kind = "half" -> Uniform("RGBA", w, h, <<200, 30, 0, 128>>)
      [] kind = "clear" -> Uniform("RGBA", w, h, <<200, 30, 0, 0>>)
      [] kind = "twotone" ->
            Canon([Uniform("RGBA", w, h, Red) EXCEPT
                      !.patches = <<Rect(0, 0, 1, h, <<0, 255, 0, 255>>)>>])

HatKinds == {"opaque", "half", "clear", "twotone"}
Scales == {-10, 0, 2, 12, 20, 30}
OffsetsX == {-1, 0, 1}
OffsetsY == {-10, 0, 1}
Rotations == {-175, 0, 45, 90, 180}

SmallInputs ==
    [base : {BaseImage(k, w, h) : k \in {"RGB", "RGBA"}, w \in 1..MaxBase, h \in {1, MaxBase}},
     hat : {HatImage(k, w, h) : k \in HatKinds, w \in 1..MaxHat, h \in {1, MaxHat}},
     scale : Scales, ox : OffsetsX, oy : OffsetsY, rot : Rotations]

(* The scenario of the specification: 800x800 opaque white base, 200x100
   opaque red overlay, scale 0.5, offsets 0, rotation 0 or 90. *)
ScenarioInputs ==
    [base : {Uniform("RGBA", 800, 800, White)},
     hat : {Uniform("RGBA", 200, 100, Red)},
     scale : {10}, ox : {0}, oy : {0}, rot : {0, 90}]

(* Sizes at which the double-precision products of lines 43-44 fall just
   below an integer: 180 * 0.35 and 90 * 0.7 (below 63), 27 * (13 / 3)
   (below 117). *)
PrecisionInputs ==
    [base : {Uniform("RGBA", 180, 2, White), Uniform("RGB", 90, 2, <<250, 240, 230>>)},
     hat : {Uniform("RGBA", 2, 1, Red)},
     scale : {7, 14}, ox : {0}, oy : {0}, rot : {0, 90}]
    \cup
    [base : {Uniform("RGBA", 13, 2, White)},
     hat : {Uniform("RGBA", 3, 27, Red)},
     scale : {20}, ox : {0}, oy : {0}, rot : {0, 90}]

IdleSessions ==
    [s \in {1, 2} |-> [pc |-> "idle", combined |-> NoImage, data |-> <<>>,
                       pos |-> 0, pending |-> <<>>, bufsize |-> 0]]

(* outputs/santa_profile.png before the first save: prepare_directories
   makes the directory only *)
AbsentFile == [exists |-> FALSE, bytes |-> <<>>]

InitCall(in) ==
    /\ heap = [o \in Obj |-> IF o = "arg_profile" THEN in.base
                             ELSE IF o = "arg_hat" THEN in.hat ELSE NoImage]
    /\ profile_image = "arg_profile"
    /\ santa_hat = "arg_hat"
    /\ combined_image = "none"
    /\ hat_scale = in.scale
    /\ hat_offset_x = in.ox
    /\ hat_offset_y = in.oy
    /\ hat_rotation = in.rot
    /\ hat_width = 0
    /\ hat_height = 0
    /\ hat_position = <<0, 0>>
    /\ pc = "line39"
    /\ err = "none"
    /\ result = "none"

Init ==
    /\ \E in \in SmallInputs \cup ScenarioInputs \cup PrecisionInputs : InitCall(in)
    /\ session = IdleSessions
    /\ output_file = AbsentFile

----------------------------------------------------------------------------
(* add_santa_hat, one action per statement *)

(* lines 39-40: both locals are rebound to new RGBA images *)
Convert ==
    /\ pc = "line39"
    /\ heap' = [heap EXCEPT !["profile_rgba"] = convert(heap[profile_image], "RGBA"),
                            !["hat_rgba"] = convert(heap[santa_hat], "RGBA")]
    /\ profile_image' = "profile_rgba"
    /\ santa_hat' = "hat_rgba"
    /\ pc' = "line43"
    /\ UNCHANGED <<combined_image, hat_scale, hat_offset_x, hat_offset_y, hat_rotation,
                   hat_width, hat_height, hat_position, err, result, mvars>>

(* lines 43-44 *)
ComputeSize ==
    /\ pc = "line43"
    /\ hat_width' = HatWidth(heap[profile_image].width, hat_scale)
    /\ hat_height' = HatHeight(heap[santa_hat].height,
                               HatWidth(heap[profile_image].width, hat_scale),
                               heap[santa_hat].width)
    /\ pc' = "line45"
    /\ UNCHANGED <<heap, profile_image, santa_hat, combined_image, hat_scale, hat_offset_x,
                   hat_offset_y, hat_rotation, hat_position, err, result, mvars>>

(* line 45, resize returns *)
Resize ==
    /\ pc = "line45"
    /\ ~ResizeRaises(hat_width, hat_height)
    /\ heap' = [heap EXCEPT !["hat_resized"] = resize(heap[santa_hat], hat_width, hat_height)]
    /\ santa_hat' = "hat_resized"
    /\ pc' = "line48"
    /\ UNCHANGED <<profile_image, combined_image, hat_scale, hat_offset_x, hat_offset_y,
                   hat_rotation, hat_width, hat_height, hat_position, err, result, mvars>>

(* line 45, resize raises: the exception leaves add_santa_hat *)
ResizeFails ==
    /\ pc = "line45"
    /\ ResizeRaises(hat_width, hat_height)
    /\ err' = "ValueError"
    /\ pc' = "raised"
    /\ UNCHANGED <<heap, profile_image, santa_hat, combined_image, hat_scale, hat_offset_x,
                   hat_offset_y, hat_rotation, hat_width, hat_height, hat_position, result,
                   mvars>>

(* line 48 *)
Rotate ==
    /\ pc = "line48"
    /\ heap' = [heap EXCEPT !["hat_rotated"] = rotate(heap[santa_hat], hat_rotation)]
    /\ santa_hat' = "hat_rotated"
    /\ pc' = "line51"
    /\ UNCHANGED <<profile_image, combined_image, hat_scale, hat_offset_x, hat_offset_y,
                   hat_rotation, hat_width, hat_height, hat_position, err, result, mvars>>

(* lines 51-55 *)
Position ==
    /\ pc = "line51"
    /\ hat_position' = HatPosition(heap[profile_image].width, heap[santa_hat].width,
                                   hat_offset_x, hat_offset_y)
    /\ pc' = "line58"
    /\ UNCHANGED <<heap, profile_image, santa_hat, combined_image, hat_scale, hat_offset_x,
                   hat_offset_y, hat_rotation, hat_width, hat_height, err, result, mvars>>

(* lines 58-60: a new image, a transparent image composited over the base *)
Composite ==
    /\ pc = "line58"
    /\ LET blank == new("RGBA", heap[profile_image].width, heap[profile_image].height,
                        <<0, 0, 0, 0>>)
       IN  heap' = [heap EXCEPT !["blank"] = blank,
                                !["combined"] = alpha_composite(heap[profile_image], blank)]
    /\ combined_image' = "combined"
    /\ pc' = "line61"
    /\ UNCHANGED <<profile_image, santa_hat, hat_scale, hat_offset_x, hat_offset_y,
                   hat_rotation, hat_width, hat_height, hat_position, err, result, mvars>>

(* Variant of PasteTarget: the paste goes into the caller's image *)
PasteTargetCaller == "arg_profile"

(* The object line 61 pastes into *)
PasteTarget == combined_image

(* line 61: paste changes its target in place *)
Paste ==
    /\ pc = "line61"
    /\ heap' = [heap EXCEPT ![PasteTarget] =
                    paste(heap[PasteTarget], heap[santa_hat], hat_position[1], hat_position[2])]
    /\ pc' = "line63"
    /\ UNCHANGED <<profile_image, santa_hat, combined_image, hat_scale, hat_offset_x,
                   hat_offset_y, hat_rotation, hat_width, hat_height, hat_position, err,
                   result, mvars>>

(* line 63 *)
Return ==
    /\ pc = "line63"
    /\ result' = combined_image
    /\ pc' = "returned"
    /\ UNCHANGED <<heap, profile_image, santa_hat, combined_image, hat_scale, hat_offset_x,
                   hat_offset_y, hat_rotation, hat_width, hat_height, hat_position, err,
                   mvars>>

Next ==
    \/ Convert
    \/ ComputeSize
    \/ Resize
    \/ ResizeFails
    \/ Rotate
    \/ Position
    \/ Composite
    \/ Paste
    \/ Return

Spec == Init /\ [][Next]_vars

----------------------------------------------------------------------------
(* add_santa_hat as one call: the result of lines 39-63 on given inputs; each
   image the call creates is a bound name *)

AddSantaHat(in) ==
    LET profile == convert(in.base, "RGBA")
        w == HatWidth(profile.width, in.scale)
        h == HatHeight(in.hat.height, w, in.hat.width)
        returned ==
            {[raised |-> FALSE,
              image |-> paste(combined, hat,
                              HatPosition(profile.width, hat.width, in.ox, in.oy)[1],
                              HatPosition(profile.width, hat.width, in.ox, in.oy)[2])] :
                 hat \in {rotate(resized, in.rot) :
                             resized \in {resize(hat0, w, h) : hat0 \in {convert(in.hat, "RGBA")}}},
                 combined \in {alpha_composite(base, new("RGBA", base.width, base.height,
                                                          <<0, 0, 0, 0>>)) : base \in {profile}}}
    IN  IF ResizeRaises(w, h) THEN [raised |-> TRUE, image |-> NoImage]
        ELSE CHOOSE r \in returned : TRUE

(* The stepwise actions and the one-call form agree *)
StepsAgreeWithCall ==
    LET in == [base |-> heap["arg_profile"], hat |-> heap["arg_hat"], scale |-> hat_scale,
               ox |-> hat_offset_x, oy |-> hat_offset_y, rot |-> hat_rotation]
    IN  /\ pc = "returned" => AddSantaHat(in) = [raised |-> FALSE, image |-> heap[result]]
        /\ pc = "raised" => AddSantaHat(in).raised

----------------------------------------------------------------------------
(* main, lines 84-140: sessions of the Streamlit process run main in threads
   of their own and share outputs/santa_profile.png *)

Sessions == {1, 2}

(* What a session uploads and sets on the sliders (lines 85-111): a 2x2
   image or a 900x900 picture; the overlay is the one asset of line 72. *)
SessionInputs ==
    [base : {BaseImage("RGB", 2, 2)},
     hat : {HatImage("half", 1, 1)},
     scale : {12}, ox : {0}, oy : {-10, 0}, rot : {0}]
    \cup
    [base : {BaseImage("RGB", 2, 2)},
     hat : {HatImage("half", 1, 1)},
     scale : {2}, ox : {0}, oy : {0}, rot : {0}]
    \cup
    [base : {Uniform("RGB", 900, 900, <<250, 240, 230>>)},
     hat : {HatImage("half", 1, 1)},
     scale : {12}, ox : {0}, oy : {0}, rot : {0}]

(* lines 114-121: what add_santa_hat does with each of them *)
SessionOutcomes == {AddSantaHat(in) : in \in SessionInputs}

(* The composites of SessionInputs: the 2x2 upload with the overlay outside
   it and with the overlay on its top-left pixel, the picture with the
   overlay *)
SavedPlain == Uniform("RGBA", 2, 2, <<250, 240, 230, 255>>)

SavedHat ==
    [SavedPlain EXCEPT !.patches = <<Rect(0, 0, 1, 1, <<225, 135, 115, 191>>)>>]

SavedPicture ==
    [Uniform("RGBA", 900, 900, <<250, 240, 230, 255>>) EXCEPT
        !.patches = <<Rect(180, 0, 720, 540, <<224, 134, 115, 191>>)>>]

(* The encoder's output for these three: the zlib stream (compression level
   6, strategy Z_FILTERED) of the rows of the image, each behind the filter
   that ZipEncode chooses for it *)
StreamPlain ==
    <<120, 156, 99, 252, 245, 225, 217, 127, 6, 6, 6, 6, 38, 6, 40, 0, 0, 59, 60, 3, 211>>

StreamHat ==
    <<120, 156, 99, 120, 216, 94, 188, 255, 215, 135, 103, 255, 25, 127, 125, 120, 246, 159, 129,
      129, 129, 1, 0, 109, 52, 10, 58>>

StreamPicture ==
    <<120, 156, 237, 217, 177, 13, 194, 64, 0, 4, 65, 76, 25, 174, 134, 122, 72, 169, 131, 148, 122,
      92, 205, 199, 142, 157, 152, 38, 16, 47, 121, 103, 42, 184, 116, 117, 203, 177, 143, 243, 6,
      23, 49, 62, 239, 109, 246, 6, 0, 224, 218, 214, 231, 235, 49, 123, 3, 252, 202, 125, 246, 0,
      0, 0, 0, 230, 16, 132, 0, 0, 0, 81, 130, 16, 0, 0, 32, 74, 16, 2, 0, 0, 68, 9, 66, 0, 0, 128,
      40, 65, 8, 0, 0, 16, 37, 8, 1, 0, 0, 162, 4, 33, 0, 0, 64, 148, 32, 4, 0, 0, 136, 18, 132, 0,
      0, 0, 81, 130, 16, 0, 0, 32, 74, 16, 2, 0, 0, 68, 9, 66, 0, 0, 128, 40, 65, 8, 0, 0, 16, 37,
      8, 1, 0, 0, 162, 4, 33, 0, 0, 64, 148, 32, 4, 0, 0, 136, 18, 132, 0, 0, 0, 81, 130, 16, 0, 0,
      32, 74, 16, 2, 0, 0, 68, 9, 66, 0, 0, 128, 40, 65, 8, 0, 0, 16, 37, 8, 1, 0, 0, 162, 4, 33, 0,
      0, 64, 148, 32, 4, 0, 0, 136, 18, 132, 0, 0, 0, 81, 130, 16, 0, 0, 32, 74, 16, 2, 0, 0, 68, 9,
      66, 0, 0, 128, 40, 65, 8, 0, 0, 16, 37, 8, 1, 0, 0, 162, 4, 33, 0, 0, 64, 148, 32, 4, 0, 0,
      136, 18, 132, 0, 0, 0, 81, 130, 16, 0, 0, 32, 74, 16, 2, 0, 0, 68, 9, 66, 0, 0, 128, 40, 65,
      8, 0, 0, 16, 37, 8, 1, 0, 0, 162, 4, 33, 0, 0, 64, 148, 32, 4, 0, 0, 136, 18, 132, 0, 0, 0,
      81, 130, 16, 0, 0, 32, 74, 16, 2, 0, 0, 68, 9, 66, 0, 0, 128, 40, 65, 8, 0, 0, 16, 37, 8, 1,
      0, 0, 162, 4, 33, 0, 0, 64, 148, 32, 4, 0, 0, 136, 18, 132, 0, 0, 0, 81, 130, 16, 0, 0, 32,
      74, 16, 2, 0, 0, 68, 9, 66, 0, 0, 128, 40, 65, 8, 0, 0, 16, 37, 8, 1, 0, 0, 162, 4, 33, 0, 0,
      64, 148, 32, 4, 0, 0, 136, 18, 132, 0, 0, 0, 81, 130, 16, 0, 0, 32, 74, 16, 2, 0, 0, 68, 9,
      66, 0, 0, 128, 40, 65, 8, 0, 0, 16, 37, 8, 1, 0, 0, 162, 4, 33, 0, 0, 64, 148, 32, 4, 0, 0,
      136, 18, 132, 0, 0, 0, 81, 130, 16, 0, 0, 32, 74, 16, 2, 0, 0, 68, 9, 66, 0, 0, 128, 40, 65,
      8, 0, 0, 16, 37, 8, 1, 0, 0, 162, 4, 33, 0, 0, 64, 148, 32, 4, 0, 0, 136, 18, 132, 0, 0, 0,
      81, 130, 16, 0, 0, 32, 74, 16, 2, 0, 0, 68, 9, 66, 0, 0, 128, 40, 65, 8, 0, 0, 16, 37, 8, 1,
      0, 0, 162, 4, 33, 0, 0, 64, 148, 32, 4, 0, 0, 136, 18, 132, 0, 0, 0, 81, 130, 16, 0, 0, 32,
      74, 16, 2, 0, 0, 68, 9, 66, 0, 0, 128, 40, 65, 8, 0, 0, 16, 37, 8, 1, 0, 0, 162, 4, 33, 0, 0,
      64, 148, 32, 4, 0, 0, 136, 18, 132, 0, 0, 0, 81, 130, 16, 0, 0, 32, 74, 16, 2, 0, 0, 68, 9,
      66, 0, 0, 128, 40, 65, 8, 0, 0, 16, 37, 8, 1, 0, 0, 162, 4, 33, 0, 0, 64, 148, 32, 4, 0, 0,
      136, 18, 132, 0, 0, 0, 81, 130, 16, 0, 0, 32, 74, 16, 2, 0, 0, 68, 9, 66, 0, 0, 128, 40, 65,
      8, 0, 0, 16, 37, 8, 1, 0, 0, 162, 4, 33, 0, 0, 64, 148, 32, 4, 0, 0, 136, 18, 132, 0, 0, 0,
      81, 130, 16, 0, 0, 32, 74, 16, 2, 0, 0, 68, 9, 66, 0, 0, 128, 40, 65, 8, 0, 0, 16, 37, 8, 1,
      0, 0, 162, 4, 33, 0, 0, 64, 148, 32, 4, 0, 0, 136, 18, 132, 0, 0, 0, 81, 130, 16, 0, 0, 32,
      74, 16, 2, 0, 0, 68, 9, 66, 0, 0, 128, 40, 65, 8, 0, 0, 16, 37, 8, 1, 0, 0, 162, 4, 33, 0, 0,
      64, 148, 32, 4, 0, 0, 136, 18, 132, 0, 0, 0, 81, 130, 16, 0, 0, 32, 74, 16, 2, 0, 0, 68, 9,
      66, 0, 0, 128, 40, 65, 8, 0, 0, 16, 37, 8, 1, 0, 0, 162, 4, 33, 0, 0, 64, 148, 32, 4, 0, 0,
      136, 18, 132, 0, 0, 0, 81, 130, 16, 0, 0, 32, 74, 16, 2, 0, 0, 68, 9, 66, 0, 0, 128, 40, 65,
      8, 0, 0, 16, 37, 8, 1, 0, 0, 162, 4, 33, 0, 0, 64, 148, 32, 4, 0, 0, 136, 18, 132, 0, 0, 0,
      81, 130, 16, 0, 0, 32, 74, 16, 2, 0, 0, 68, 9, 66, 0, 0, 128, 40, 65, 8, 0, 0, 16, 37, 8, 1,
      0, 0, 162, 4, 33, 0, 0, 64, 148, 32, 4, 0, 0, 136, 18, 132, 0, 0, 0, 81, 130, 16, 0, 0, 32,
      74, 16, 2, 0, 0, 68, 9, 66, 0, 0, 128, 40, 65, 8, 0, 0, 16, 37, 8, 1, 0, 0, 162, 4, 33, 0, 0,
      64, 148, 32, 4, 0, 0, 136, 18, 132, 0, 0, 0, 81, 130, 16, 0, 0, 32, 74, 16, 2, 0, 0, 68, 9,
      66, 0, 0, 128, 40, 65, 8, 0, 0, 16, 37, 8, 1, 0, 0, 162, 4, 33, 0, 0, 64, 148, 32, 4, 0, 0,
      136, 18, 132, 0, 0, 0, 81, 130, 16, 0, 0, 32, 74, 16, 2, 0, 0, 68, 9, 66, 0, 0, 128, 40, 65,
      8, 0, 0, 16, 37, 8, 1, 0, 0, 162, 4, 33, 0, 0, 64, 148, 32, 4, 0, 0, 136, 18, 132, 0, 0, 0,
      81, 130, 16, 0, 0, 32, 74, 16, 2, 0, 0, 68, 9, 66, 0, 0, 128, 40, 65, 8, 0, 0, 16, 37, 8, 1,
      0, 0, 162, 4, 33, 0, 0, 64, 148, 32, 4, 0, 0, 136, 18, 132, 0, 0, 0, 81, 130, 16, 0, 0, 32,
      74, 16, 2, 0, 0, 68, 9, 66, 0, 0, 128, 40, 65, 8, 0, 0, 16, 37, 8, 1, 0, 0, 162, 4, 33, 0, 0,
      64, 148, 32, 4, 0, 0, 136, 18, 132, 0, 0, 0, 81, 130, 16, 0, 0, 32, 74, 16, 2, 0, 0, 68, 9,
      66, 0, 0, 128, 40, 65, 8, 0, 0, 16, 37, 8, 1, 0, 0, 162, 4, 33, 0, 0, 64, 148, 32, 4, 0, 0,
      136, 18, 132, 0, 0, 0, 81, 130, 16, 0, 0, 32, 74, 16, 2, 0, 0, 68, 9, 66, 0, 0, 128, 40, 65,
      8, 0, 0, 16, 37, 8, 1, 0, 0, 162, 4, 33, 0, 0, 64, 148, 32, 4, 0, 0, 136, 18, 132, 0, 0, 0,
      81, 130, 16, 0, 0, 32, 74, 16, 2, 0, 0, 68, 9, 66, 0, 0, 128, 40, 65, 8, 0, 0, 16, 37, 8, 1,
      0, 0, 162, 4, 33, 0, 0, 64, 148, 32, 4, 0, 0, 136, 18, 132, 0, 0, 0, 81, 130, 16, 0, 0, 32,
      74, 16, 2, 0, 0, 68, 9, 66, 0, 0, 128, 40, 65, 8, 0, 0, 16, 37, 8, 1, 0, 0, 162, 4, 33, 0, 0,
      64, 148, 32, 4, 0, 0, 136, 18, 132, 0, 0, 0, 81, 130, 16, 0, 0, 32, 74, 16, 2, 0, 0, 68, 9,
      66, 0, 0, 128, 40, 65, 8, 0, 0, 16, 37, 8, 1, 0, 0, 162, 4, 33, 0, 0, 64, 148, 32, 4, 0, 0,
      136, 18, 132, 0, 0, 0, 81, 130, 16, 0, 0, 32, 74, 16, 2, 0, 0, 68, 9, 66, 0, 0, 128, 40, 65,
      8, 0, 0, 16, 37, 8, 1, 0, 0, 162, 4, 33, 0, 0, 64, 148, 32, 4, 0, 0, 136, 18, 132, 0, 0, 0,
      81, 130, 16, 0, 0, 32, 74, 16, 2, 0, 0, 68, 9, 66, 0, 0, 128, 40, 65, 8, 0, 0, 16, 37, 8, 1,
      0, 0, 162, 4, 33, 0, 0, 64, 148, 32, 4, 0, 0, 136, 18, 132, 0, 0, 0, 81, 130, 16, 0, 0, 32,
      74, 16, 2, 0, 0, 68, 9, 66, 0, 0, 128, 40, 65, 8, 0, 0, 16, 37, 8, 1, 0, 0, 162, 4, 33, 0, 0,
      64, 148, 32, 4, 0, 0, 136, 18, 132, 0, 0, 0, 81, 130, 16, 0, 0, 32, 74, 16, 2, 0, 0, 68, 9,
      66, 0, 0, 128, 40, 65, 8, 0, 0, 16, 37, 8, 1, 0, 0, 162, 4, 33, 0, 0, 64, 148, 32, 4, 0, 0,
      136, 18, 132, 0, 0, 0, 81, 130, 16, 0, 0, 32, 74, 16, 2, 0, 0, 68, 9, 66, 0, 0, 128, 40, 65,
      8, 0, 0, 16, 37, 8, 1, 0, 0, 162, 4, 33, 0, 0, 64, 148, 32, 4, 0, 0, 136, 18, 132, 0, 0, 0,
      81, 130, 16, 0, 0, 32, 74, 16, 2, 0, 0, 68, 9, 66, 0, 0, 128, 40, 65, 8, 0, 0, 16, 37, 8, 1,
      0, 0, 162, 4, 33, 0, 0, 64, 148, 32, 4, 0, 0, 136, 18, 132, 0, 0, 0, 81, 130, 16, 0, 0, 32,
      74, 16, 2, 0, 0, 68, 9, 66, 0, 0, 128, 40, 65, 8, 0, 0, 16, 37, 8, 1, 0, 0, 162, 4, 33, 0, 0,
      64, 148, 32, 4, 0, 0, 136, 18, 132, 0, 0, 0, 81, 130, 16, 0, 0, 32, 74, 16, 2, 0, 0, 68, 9,
      66, 0, 0, 128, 40, 65, 8, 0, 0, 16, 37, 8, 1, 0, 0, 162, 4, 33, 0, 0, 64, 148, 32, 4, 0, 0,
      136, 18, 132, 0, 0, 0, 81, 130, 16, 0, 0, 32, 74, 16, 2, 0, 0, 68, 9, 66, 0, 0, 128, 40, 65,
      8, 0, 0, 16, 37, 8, 1, 0, 0, 162, 4, 33, 0, 0, 64, 148, 32, 4, 0, 0, 136, 18, 132, 0, 0, 0,
      81, 130, 16, 0, 0, 32, 74, 16, 2, 0, 0, 68, 9, 66, 0, 0, 128, 40, 65, 8, 0, 0, 16, 37, 8, 1,
      0, 0, 162, 4, 33, 0, 0, 64, 148, 32, 4, 0, 0, 136, 18, 132, 0, 0, 0, 81, 130, 16, 0, 0, 32,
      74, 16, 2, 0, 0, 68, 9, 66, 0, 0, 128, 40, 65, 8, 0, 0, 16, 37, 8, 1, 0, 0, 162, 4, 33, 0, 0,
      64, 148, 32, 4, 0, 0, 136, 18, 132, 0, 0, 0, 81, 130, 16, 0, 0, 32, 74, 16, 2, 0, 0, 68, 9,
      66, 0, 0, 128, 40, 65, 8, 0, 0, 16, 37, 8, 1, 0, 0, 162, 4, 33, 0, 0, 64, 148, 32, 4, 0, 0,
      136, 18, 132, 0, 0, 0, 81, 130, 16, 0, 0, 32, 74, 16, 2, 0, 0, 68, 9, 66, 0, 0, 128, 40, 65,
      8, 0, 0, 16, 37, 8, 1, 0, 0, 162, 4, 33, 0, 0, 64, 148, 32, 4, 0, 0, 136, 18, 132, 0, 0, 0,
      81, 130, 16, 0, 0, 32, 74, 16, 2, 0, 0, 68, 9, 66, 0, 0, 128, 40, 65, 8, 0, 0, 16, 37, 8, 1,
      0, 0, 162, 4, 33, 0, 0, 64, 148, 32, 4, 0, 0, 136, 18, 132, 0, 0, 0, 81, 130, 16, 0, 0, 32,
      74, 16, 2, 0, 0, 68, 9, 66, 0, 0, 128, 40, 65, 8, 0, 0, 16, 37, 8, 1, 0, 0, 162, 4, 33, 0, 0,
      64, 148, 32, 4, 0, 0, 136, 18, 132, 0, 0, 0, 81, 130, 16, 0, 0, 32, 74, 16, 2, 0, 0, 68, 9,
      66, 0, 0, 128, 40, 65, 8, 0, 0, 16, 37, 8, 1, 0, 0, 162, 4, 33, 0, 0, 64, 148, 32, 4, 0, 0,
      136, 18, 132, 0, 0, 0, 81, 130, 16, 0, 0, 32, 74, 16, 2, 0, 0, 68, 9, 66, 0, 0, 128, 40, 65,
      8, 0, 0, 16, 37, 8, 1, 0, 0, 162, 4, 33, 0, 0, 64, 148, 32, 4, 0, 0, 136, 18, 132, 0, 0, 0,
      81, 130, 16, 0, 0, 32, 74, 16, 2, 0, 0, 68, 9, 66, 0, 0, 128, 40, 65, 8, 0, 0, 16, 37, 8, 1,
      0, 0, 162, 4, 33, 0, 0, 64, 148, 32, 4, 0, 0, 136, 18, 132, 0, 0, 0, 81, 130, 16, 0, 0, 32,
      74, 16, 2, 0, 0, 68, 9, 66, 0, 0, 128, 40, 65, 8, 0, 0, 16, 37, 8, 1, 0, 0, 162, 4, 33, 0, 0,
      64, 148, 32, 4, 0, 0, 136, 18, 132, 0, 0, 0, 81, 130, 16, 0, 0, 32, 74, 16, 2, 0, 0, 68, 9,
      66, 0, 0, 128, 40, 65, 8, 0, 0, 16, 37, 8, 1, 0, 0, 162, 4, 33, 0, 0, 64, 148, 32, 4, 0, 0,
      136, 18, 132, 0, 0, 0, 81, 130, 16, 0, 0, 32, 74, 16, 2, 0, 0, 68, 9, 66, 0, 0, 128, 40, 65,
      8, 0, 0, 16, 37, 8, 1, 0, 0, 162, 4, 33, 0, 0, 64, 148, 32, 4, 0, 0, 136, 18, 132, 0, 0, 0,
      81, 130, 16, 0, 0, 32, 74, 16, 2, 0, 0, 68, 9, 66, 0, 0, 128, 40, 65, 8, 0, 0, 16, 37, 8, 1,
      0, 0, 162, 4, 33, 0, 0, 64, 148, 32, 4, 0, 0, 136, 18, 132, 0, 0, 0, 81, 130, 16, 0, 0, 32,
      74, 16, 2, 0, 0, 68, 9, 66, 0, 0, 128, 40, 65, 8, 0, 0, 16, 37, 8, 1, 0, 0, 162, 4, 33, 0, 0,
      64, 148, 32, 4, 0, 0, 136, 18, 132, 0, 0, 0, 81, 130, 16, 0, 0, 32, 74, 16, 2, 0, 0, 68, 9,
      66, 0, 0, 128, 40, 65, 8, 0, 0, 16, 37, 8, 1, 0, 0, 162, 4, 33, 0, 0, 64, 148, 32, 4, 0, 0,
      136, 18, 132, 0, 0, 0, 81, 130, 16, 0, 0, 32, 74, 16, 2, 0, 0, 68, 9, 66, 0, 0, 128, 40, 65,
      8, 0, 0, 16, 37, 8, 1, 0, 0, 162, 4, 33, 0, 0, 64, 148, 32, 4, 0, 0, 136, 18, 132, 0, 0, 0,
      81, 130, 16, 0, 0, 32, 74, 16, 2, 0, 0, 68, 9, 66, 0, 0, 128, 40, 65, 8, 0, 0, 16, 37, 8, 1,
      0, 0, 162, 4, 33, 0, 0, 64, 148, 32, 4, 0, 0, 136, 18, 132, 0, 0, 0, 81, 130, 16, 0, 0, 32,
      74, 16, 2, 0, 0, 68, 9, 66, 0, 0, 128, 40, 65, 8, 0, 0, 16, 37, 8, 1, 0, 0, 162, 4, 33, 0, 0,
      64, 148, 32, 4, 0, 0, 136, 18, 132, 0, 0, 0, 81, 130, 16, 0, 0, 32, 74, 16, 2, 0, 0, 68, 9,
      66, 0, 0, 128, 40, 65, 8, 0, 0, 16, 37, 8, 1, 0, 0, 162, 4, 33, 0, 0, 64, 148, 32, 4, 0, 0,
      136, 18, 132, 0, 0, 0, 81, 130, 16, 0, 0, 32, 74, 16, 2, 0, 0, 68, 9, 66, 0, 0, 128, 40, 65,
      8, 0, 0, 16, 37, 8, 1, 0, 0, 162, 4, 33, 0, 0, 64, 148, 32, 4, 0, 0, 136, 18, 132, 0, 0, 0,
      81, 130, 16, 0, 0, 32, 74, 16, 2, 0, 0, 68, 9, 66, 0, 0, 128, 40, 65, 8, 0, 0, 16, 37, 8, 1,
      0, 0, 162, 4, 33, 0, 0, 64, 148, 32, 4, 0, 0, 136, 18, 132, 0, 0, 0, 81, 130, 16, 0, 0, 32,
      74, 16, 2, 0, 0, 68, 9, 66, 0, 0, 128, 40, 65, 8, 0, 0, 16, 37, 8, 1, 0, 0, 162, 4, 33, 0, 0,
      64, 148, 32, 4, 0, 0, 136, 18, 132, 0, 0, 0, 81, 130, 16, 0, 0, 32, 74, 16, 2, 0, 0, 68, 9,
      66, 0, 0, 128, 40, 65, 8, 0, 0, 16, 37, 8, 1, 0, 0, 162, 4, 33, 0, 0, 64, 148, 32, 4, 0, 0,
      136, 18, 132, 0, 0, 0, 81, 130, 16, 0, 0, 32, 74, 16, 2, 0, 0, 68, 9, 66, 0, 0, 128, 40, 65,
      8, 0, 0, 16, 37, 8, 1, 0, 0, 162, 4, 33, 0, 0, 64, 148, 32, 4, 0, 0, 136, 18, 132, 0, 0, 0,
      81, 130, 16, 0, 0, 32, 74, 16, 2, 0, 0, 68, 9, 66, 0, 0, 128, 40, 65, 8, 0, 0, 16, 37, 8, 1,
      0, 0, 162, 4, 33, 0, 0, 64, 148, 32, 4, 0, 0, 136, 18, 132, 0, 0, 0, 81, 130, 16, 0, 0, 32,
      74, 16, 2, 0, 0, 68, 9, 66, 0, 0, 128, 40, 65, 8, 0, 0, 16, 37, 8, 1, 0, 0, 162, 4, 33, 0, 0,
      64, 148, 32, 4, 0, 0, 136, 18, 132, 0, 0, 0, 81, 130, 16, 0, 0, 32, 74, 16, 2, 0, 0, 68, 9,
      66, 0, 0, 128, 40, 65, 8, 0, 0, 16, 37, 8, 1, 0, 0, 162, 4, 33, 0, 0, 64, 148, 32, 4, 0, 0,
      136, 18, 132, 0, 0, 0, 81, 130, 16, 0, 0, 32, 74, 16, 2, 0, 0, 68, 9, 66, 0, 0, 128, 40, 65,
      8, 0, 0, 16, 37, 8, 1, 0, 0, 162, 4, 33, 0, 0, 64, 148, 32, 4, 0, 0, 136, 18, 132, 0, 0, 0,
      81, 130, 16, 0, 0, 32, 74, 16, 2, 0, 0, 68, 9, 66, 0, 0, 128, 40, 65, 8, 0, 0, 16, 37, 8, 1,
      0, 0, 162, 4, 33, 0, 0, 64, 148, 32, 4, 0, 0, 136, 18, 132, 0, 0, 0, 81, 130, 16, 0, 0, 32,
      74, 16, 2, 0, 0, 68, 9, 66, 0, 0, 128, 40, 65, 8, 0, 0, 16, 37, 8, 1, 0, 0, 162, 4, 33, 0, 0,
      64, 148, 32, 4, 0, 0, 136, 18, 132, 0, 0, 0, 81, 130, 16, 0, 0, 32, 106, 57, 246, 113, 206,
      30, 1, 0, 0, 192, 255, 121, 8, 1, 0, 0, 162, 4, 33, 0, 0, 64, 148, 32, 4, 0, 0, 136, 18, 132,
      0, 0, 0, 81, 130, 16, 0, 0, 32, 74, 16, 2, 0, 0, 68, 9, 66, 0, 0, 128, 40, 65, 8, 0, 0, 16,
      37, 8, 1, 0, 0, 162, 4, 33, 0, 0, 64, 148, 32, 4, 0, 0, 136, 18, 132, 0, 0, 0, 81, 130, 16, 0,
      0, 32, 74, 16, 2, 0, 0, 68, 9, 66, 0, 0, 128, 40, 65, 8, 0, 0, 16, 37, 8, 1, 0, 0, 162, 4, 33,
      0, 0, 64, 148, 32, 4, 0, 0, 136, 18, 132, 0, 0, 0, 81, 130, 16, 0, 0, 32, 74, 16, 2, 0, 0, 68,
      9, 66, 0, 0, 128, 40, 65, 8, 0, 0, 16, 37, 8, 1, 0, 0, 162, 4, 33, 0, 0, 64, 148, 32, 4, 0, 0,
      136, 18, 132, 0, 0, 0, 81, 130, 16, 0, 0, 32, 74, 16, 2, 0, 0, 68, 9, 66, 0, 0, 128, 40, 65,
      8, 0, 0, 16, 37, 8, 1, 0, 0, 162, 4, 33, 0, 0, 64, 148, 32, 4, 0, 0, 136, 18, 132, 0, 0, 0,
      81, 130, 16, 0, 0, 32, 74, 16, 2, 0, 0, 68, 9, 66, 0, 0, 128, 40, 65, 8, 0, 0, 16, 37, 8, 1,
      0, 0, 162, 4, 33, 0, 0, 64, 148, 32, 4, 0, 0, 136, 18, 132, 0, 0, 0, 81, 130, 16, 0, 0, 32,
      74, 16, 2, 0, 0, 68, 9, 66, 0, 0, 128, 40, 65, 8, 0, 0, 16, 37, 8, 1, 0, 0, 162, 4, 33, 0, 0,
      64, 148, 32, 4, 0, 0, 136, 18, 132, 0, 0, 0, 81, 130, 16, 0, 0, 32, 74, 16, 2, 0, 0, 68, 9,
      66, 0, 0, 128, 40, 65, 8, 0, 0, 16, 37, 8, 1, 0, 0, 162, 4, 33, 0, 0, 64, 148, 32, 4, 0, 0,
      136, 18, 132, 0, 0, 0, 81, 130, 16, 0, 0, 32, 74, 16, 2, 0, 0, 68, 9, 66, 0, 0, 128, 40, 65,
      8, 0, 0, 16, 37, 8, 1, 0, 0, 162, 4, 33, 0, 0, 64, 148, 32, 4, 0, 0, 136, 18, 132, 0, 0, 0,
      81, 130, 16, 0, 0, 32, 74, 16, 2, 0, 0, 68, 9, 66, 0, 0, 128, 40, 65, 8, 0, 0, 16, 37, 8, 1,
      0, 0, 162, 4, 33, 0, 0, 64, 148, 32, 4, 0, 0, 136, 18, 132, 0, 0, 0, 81, 130, 16, 0, 0, 32,
      74, 16, 2, 0, 0, 68, 9, 66, 0, 0, 128, 40, 65, 8, 0, 0, 16, 37, 8, 1, 0, 0, 162, 4, 33, 0, 0,
      64, 148, 32, 4, 0, 0, 136, 18, 132, 0, 0, 0, 81, 130, 16, 0, 0, 32, 74, 16, 2, 0, 0, 68, 9,
      66, 0, 0, 128, 40, 65, 8, 0, 0, 16, 37, 8, 1, 0, 0, 162, 4, 33, 0, 0, 64, 148, 32, 4, 0, 0,
      136, 18, 132, 0, 0, 0, 81, 130, 16, 0, 0, 32, 74, 16, 2, 0, 0, 68, 9, 66, 0, 0, 128, 40, 65,
      8, 0, 0, 16, 37, 8, 1, 0, 0, 162, 4, 33, 0, 0, 64, 148, 32, 4, 0, 0, 136, 18, 132, 0, 0, 0,
      81, 130, 16, 0, 0, 32, 74, 16, 2, 0, 0, 68, 9, 66, 0, 0, 128, 40, 65, 8, 0, 0, 16, 37, 8, 1,
      0, 0, 162, 4, 33, 0, 0, 64, 148, 32, 4, 0, 0, 136, 18, 132, 0, 0, 0, 81, 130, 16, 0, 0, 32,
      74, 16, 2, 0, 0, 68, 9, 66, 0, 0, 128, 40, 65, 8, 0, 0, 16, 37, 8, 1, 0, 0, 162, 4, 33, 0, 0,
      64, 148, 32, 4, 0, 0, 136, 18, 132, 0, 0, 0, 81, 130, 16, 0, 0, 32, 74, 16, 2, 0, 0, 68, 9,
      66, 0, 0, 128, 40, 65, 8, 0, 0, 16, 37, 8, 1, 0, 0, 162, 4, 33, 0, 0, 64, 148, 32, 4, 0, 0,
      136, 18, 132, 0, 0, 0, 81, 130, 16, 0, 0, 32, 74, 16, 2, 0, 0, 68, 9, 66, 0, 0, 128, 40, 65,
      8, 0, 0, 16, 37, 8, 1, 0, 0, 162, 4, 33, 0, 0, 64, 148, 32, 4, 0, 0, 136, 18, 132, 0, 0, 0,
      81, 130, 16, 0, 0, 32, 74, 16, 2, 0, 0, 68, 9, 66, 0, 0, 128, 40, 65, 8, 0, 0, 16, 37, 8, 1,
      0, 0, 162, 4, 33, 0, 0, 64, 148, 32, 4, 0, 0, 136, 18, 132, 0, 0, 0, 81, 130, 16, 0, 0, 32,
      74, 16, 2, 0, 0, 68, 9, 66, 0, 0, 128, 40, 65, 8, 0, 0, 16, 37, 8, 1, 0, 0, 162, 4, 33, 0, 0,
      64, 148, 32, 4, 0, 0, 136, 18, 132, 0, 0, 0, 81, 130, 16, 0, 0, 32, 74, 16, 2, 0, 0, 68, 9,
      66, 0, 0, 128, 40, 65, 8, 0, 0, 16, 37, 8, 1, 0, 0, 162, 4, 33, 0, 0, 64, 148, 32, 4, 0, 0,
      136, 18, 132, 0, 0, 0, 81, 130, 16, 0, 0, 32, 74, 16, 2, 0, 0, 68, 9, 66, 0, 0, 128, 40, 65,
      8, 0, 0, 16, 37, 8, 1, 0, 0, 162, 4, 33, 0, 0, 64, 148, 32, 4, 0, 0, 136, 18, 132, 0, 0, 0,
      81, 130, 16, 0, 0, 32, 74, 16, 2, 0, 0, 68, 9, 66, 0, 0, 128, 40, 65, 8, 0, 0, 16, 37, 8, 1,
      0, 0, 162, 4, 33, 0, 0, 64, 148, 32, 4, 0, 0, 136, 18, 132, 0, 0, 0, 81, 130, 16, 0, 0, 32,
      74, 16, 2, 0, 0, 68, 9, 66, 0, 0, 128, 40, 65, 8, 0, 0, 16, 37, 8, 1, 0, 0, 162, 4, 33, 0, 0,
      64, 148, 32, 4, 0, 0, 136, 18, 132, 0, 0, 0, 81, 130, 16, 0, 0, 32, 74, 16, 2, 0, 0, 68, 9,
      66, 0, 0, 128, 40, 65, 8, 0, 0, 16, 37, 8, 1, 0, 0, 162, 4, 33, 0, 0, 64, 148, 32, 4, 0, 0,
      136, 18, 132, 0, 0, 0, 81, 130, 16, 0, 0, 32, 74, 16, 2, 0, 0, 68, 9, 66, 0, 0, 128, 40, 65,
      8, 0, 0, 16, 37, 8, 1, 0, 0, 162, 4, 33, 0, 0, 64, 148, 32, 4, 0, 0, 136, 18, 132, 0, 0, 0,
      81, 130, 16, 0, 0, 32, 74, 16, 2, 0, 0, 68, 9, 66, 0, 0, 128, 40, 65, 8, 0, 0, 16, 37, 8, 1,
      0, 0, 162, 4, 33, 0, 0, 64, 148, 32, 4, 0, 0, 136, 18, 132, 0, 0, 0, 81, 130, 16, 0, 0, 32,
      74, 16, 2, 0, 0, 68, 9, 66, 0, 0, 128, 40, 65, 8, 0, 0, 16, 37, 8, 1, 0, 0, 162, 4, 33, 0, 0,
      64, 148, 32, 4, 0, 0, 136, 18, 132, 0, 0, 0, 81, 130, 16, 0, 0, 32, 74, 16, 2, 0, 0, 68, 9,
      66, 0, 0, 128, 40, 65, 8, 0, 0, 16, 37, 8, 1, 0, 0, 162, 4, 33, 0, 0, 64, 148, 32, 4, 0, 0,
      136, 18, 132, 0, 0, 0, 81, 130, 16, 0, 0, 32, 74, 16, 2, 0, 0, 68, 9, 66, 0, 0, 128, 40, 65,
      8, 0, 0, 16, 37, 8, 1, 0, 0, 162, 4, 33, 0, 0, 64, 148, 32, 4, 0, 0, 136, 18, 132, 0, 0, 0,
      81, 130, 16, 0, 0, 32, 74, 16, 2, 0, 0, 68, 9, 66, 0, 0, 128, 40, 65, 8, 0, 0, 16, 37, 8, 1,
      0, 0, 162, 4, 33, 0, 0, 64, 148, 32, 4, 0, 0, 136, 18, 132, 0, 0, 0, 81, 130, 16, 0, 0, 32,
      74, 16, 2, 0, 0, 68, 9, 66, 0, 0, 128, 40, 65, 8, 0, 0, 16, 37, 8, 1, 0, 0, 162, 4, 33, 0, 0,
      64, 148, 32, 4, 0, 0, 136, 18, 132, 0, 0, 0, 81, 130, 16, 0, 0, 32, 74, 16, 2, 0, 0, 68, 9,
      66, 0, 0, 128, 40, 65, 8, 0, 0, 16, 37, 8, 1, 0, 0, 162, 4, 33, 0, 0, 64, 148, 32, 4, 0, 0,
      136, 18, 132, 0, 0, 0, 81, 130, 16, 0, 0, 32, 74, 16, 2, 0, 0, 68, 9, 66, 0, 0, 128, 40, 65,
      8, 0, 0, 16, 37, 8, 1, 0, 0, 162, 4, 33, 0, 0, 64, 148, 32, 4, 0, 0, 136, 18, 132, 0, 0, 0,
      81, 130, 16, 0, 0, 32, 74, 16, 2, 0, 0, 68, 9, 66, 0, 0, 128, 40, 65, 8, 0, 0, 16, 37, 8, 1,
      0, 0, 162, 4, 33, 0, 0, 64, 148, 32, 4, 0, 0, 136, 18, 132, 0, 0, 0, 81, 130, 16, 0, 0, 32,
      74, 16, 2, 0, 0, 68, 9, 66, 0, 0, 128, 40, 65, 8, 0, 0, 16, 37, 8, 1, 0, 0, 162, 4, 33, 0, 0,
      64, 148, 32, 4, 0, 0, 136, 18, 132, 0, 0, 0, 81, 130, 16, 0, 0, 32, 74, 16, 2, 0, 0, 68, 9,
      66, 0, 0, 128, 40, 65, 8, 0, 0, 16, 37, 8, 1, 0, 0, 162, 4, 33, 0, 0, 64, 148, 32, 4, 0, 0,
      136, 18, 132, 0, 0, 0, 81, 130, 16, 0, 0, 32, 74, 16, 2, 0, 0, 68, 9, 66, 0, 0, 128, 40, 65,
      8, 0, 0, 16, 37, 8, 1, 0, 0, 162, 4, 33, 0, 0, 64, 148, 32, 4, 0, 0, 136, 18, 132, 0, 0, 0,
      81, 130, 16, 0, 0, 32, 74, 16, 2, 0, 0, 68, 9, 66, 0, 0, 128, 40, 65, 8, 0, 0, 16, 37, 8, 1,
      0, 0, 162, 4, 33, 0, 0, 64, 148, 32, 4, 0, 0, 136, 18, 132, 0, 0, 0, 81, 130, 16, 0, 0, 32,
      74, 16, 2, 0, 0, 68, 9, 66, 0, 0, 128, 40, 65, 8, 0, 0, 16, 37, 8, 1, 0, 0, 162, 4, 33, 0, 0,
      64, 148, 32, 4, 0, 0, 136, 18, 132, 0, 0, 0, 81, 130, 16, 0, 0, 32, 74, 16, 2, 0, 0, 68, 9,
      66, 0, 0, 128, 40, 65, 8, 0, 0, 16, 37, 8, 1, 0, 0, 162, 4, 33, 0, 0, 64, 148, 32, 4, 0, 0,
      136, 18, 132, 0, 0, 0, 81, 130, 16, 0, 0, 32, 74, 16, 2, 0, 0, 68, 9, 66, 0, 0, 128, 40, 65,
      8, 0, 0, 16, 37, 8, 1, 0, 0, 162, 4, 33, 0, 0, 64, 148, 32, 4, 0, 0, 136, 18, 132, 0, 0, 0,
      81, 130, 16, 0, 0, 32, 74, 16, 2, 0, 0, 68, 9, 66, 0, 0, 128, 40, 65, 8, 0, 0, 16, 37, 8, 1,
      0, 0, 162, 4, 33, 0, 0, 64, 148, 32, 4, 0, 0, 136, 18, 132, 0, 0, 0, 81, 130, 16, 0, 0, 32,
      74, 16, 2, 0, 0, 68, 9, 66, 0, 0, 128, 40, 65, 8, 0, 0, 16, 37, 8, 1, 0, 0, 162, 4, 33, 0, 0,
      64, 148, 32, 4, 0, 0, 136, 18, 132, 0, 0, 0, 81, 130, 16, 0, 0, 32, 74, 16, 2, 0, 0, 68, 9,
      66, 0, 0, 128, 40, 65, 8, 0, 0, 16, 37, 8, 1, 0, 0, 162, 4, 33, 0, 0, 64, 148, 32, 4, 0, 0,
      136, 18, 132, 0, 0, 0, 81, 130, 16, 0, 0, 32, 74, 16, 2, 0, 0, 68, 9, 66, 0, 0, 128, 40, 65,
      8, 0, 0, 16, 37, 8, 1, 0, 0, 162, 4, 33, 0, 0, 64, 148, 32, 4, 0, 0, 136, 18, 132, 0, 0, 0,
      81, 130, 16, 0, 0, 32, 74, 16, 2, 0, 0, 68, 9, 66, 0, 0, 128, 168, 47, 156, 171, 18, 165>>

ZipEncode(im) ==
    CASE im = SavedPlain -> StreamPlain
      [] im = SavedHat -> StreamHat
      [] im = SavedPicture -> StreamPicture

Signature == <<137, 80, 78, 71, 13, 10, 26, 10>>

IHDR == <<73, 72, 68, 82>>

IDAT == <<73, 68, 65, 84>>

IEND == <<73, 69, 78, 68>>

(* o32: four bytes, the most significant first *)
o32(n) == <<n \div 16777216, (n \div 65536) % 256, (n \div 256) % 256, n % 256>>

(* the data of the IHDR chunk of an RGBA image: size, 8 bits, colour type 6 *)
IhdrData(im) == o32(im.width) \o o32(im.height) \o <<8, 6, 0, 0, 0>>

(* _crc32 over the name and the data of a chunk, for the chunks of the three
   files *)
Crc32(cid, data) ==
    CASE cid = IHDR /\ data = IhdrData(SavedPlain) -> <<114, 182, 13, 36>>
      [] cid = IHDR /\ data = IhdrData(SavedPicture) -> <<249, 78, 255, 59>>
      [] cid = IDAT /\ data = StreamPlain -> <<103, 219, 163, 117>>
      [] cid = IDAT /\ data = StreamHat -> <<57, 178, 238, 38>>
      [] cid = IDAT /\ data = StreamPicture -> <<120, 241, 168, 128>>
      [] cid = IEND /\ data = <<>> -> <<174, 66, 96, 130>>

(* ImageFile.MAXBLOCK: the most the encoder returns in one block; each block
   becomes one IDAT chunk *)
MAXBLOCK == 65536

(* ImageFile._save: the encoder is asked for blocks of MAXBLOCK bytes until
   the stream ends *)
RECURSIVE Blocks(_)
Blocks(stream) ==
    IF Len(stream) <= MAXBLOCK THEN <<stream>>
    ELSE <<SubSeq(stream, 1, MAXBLOCK)>> \o Blocks(SubSeq(stream, MAXBLOCK + 1, Len(stream)))

(* putchunk: a chunk is three calls of fp.write: length and name, the data,
   the checksum *)
putchunk(cid, data) == <<o32(Len(data)) \o cid, data, Crc32(cid, data)>>

RECURSIVE IdatCalls(_)
IdatCalls(blocks) ==
    IF blocks = <<>> THEN <<>> ELSE putchunk(IDAT, Head(blocks)) \o IdatCalls(Tail(blocks))

(* Image.save(format="PNG"): the arguments of the successive calls of
   fp.write: the signature, the IHDR chunk, one IDAT chunk per block of the
   encoder, the IEND chunk *)
WriteCalls(im) ==
    <<Signature>> \o putchunk(IHDR, IhdrData(im)) \o IdatCalls(Blocks(ZipEncode(im)))
        \o putchunk(IEND, <<>>)

RECURSIVE Concat(_)
Concat(calls) == IF calls = <<>> THEN <<>> ELSE Head(calls) \o Concat(Tail(calls))

(* The bytes of the PNG file of an image *)
PngBytes(im) == Concat(WriteCalls(im))

(* io.DEFAULT_BUFFER_SIZE *)
DEFAULT_BUFFER_SIZE == 8192

(* st_blksize of outputs/santa_profile.png *)
BlockSize == 4096

(* open(path, "w+b"): the buffer of the handle has the block size of the
   file, and the default size when the file reports none *)
BufferSize == IF BlockSize > 1 THEN BlockSize ELSE DEFAULT_BUFFER_SIZE

(* The buffered handle (io.BufferedRandom.write, then close): a call that
   fits into the free part of the buffer is copied there; otherwise the
   buffer is written out, and the call's bytes are written out directly when
   they are more than a whole buffer and are buffered when not; close writes
   out what the buffer holds.  The result is the lengths of the writes that
   reach the file, in order; fill is the number of bytes in the buffer. *)
RECURSIVE RawWrites(_, _)
RawWrites(calls, fill) ==
    IF calls = <<>> THEN (IF fill > 0 THEN <<fill>> ELSE <<>>)
    ELSE LET n == Len(Head(calls))
             flushed == IF fill > 0 THEN <<fill>> ELSE <<>>
         IN  IF n <= BufferSize - fill THEN RawWrites(Tail(calls), fill + n)
             ELSE IF n > BufferSize THEN flushed \o <<n>> \o RawWrites(Tail(calls), 0)
             ELSE flushed \o RawWrites(Tail(calls), n)

(* open(path, "w+b"): the file is created or cut to length 0 *)
TruncatedFile == [exists |-> TRUE, bytes |-> <<>>]

Zeros(n) == [i \in 1..n |-> 0]

(* write(2) through a handle whose position is pos: the bytes replace those
   at the same positions, the file keeps what lies beyond them, and a
   position beyond the end of the file leaves zero bytes in between *)
WriteAt(file, pos, data) ==
    [exists |-> TRUE,
     bytes |-> SubSeq(file.bytes, 1, Min(pos, Len(file.bytes))) \o Zeros(pos - Len(file.bytes))
               \o data
               \o SubSeq(file.bytes, pos + Len(data) + 1, Len(file.bytes))]

(* read(2) through a handle whose position is pos: at most count bytes, as
   many as the file holds from there on *)
ReadAt(file, pos, count) == SubSeq(file.bytes, pos + 1, Min(pos + count, Len(file.bytes)))

(* FileIO.readall, SMALLCHUNK: the size of the buffer for a file that
   reports no size *)
SMALLCHUNK == 8192

(* FileIO.readall, new_buffersize: the size of the buffer after it has been
   filled *)
new_buffersize(currentsize) ==
    currentsize + Max(IF currentsize > 65536 THEN currentsize \div 8 ELSE 256 + currentsize,
                      SMALLCHUNK)

InitMain ==
    /\ heap = [o \in Obj |-> NoImage]
    /\ profile_image = "none"
    /\ santa_hat = "none"
    /\ combined_image = "none"
    /\ hat_scale = 0
    /\ hat_offset_x = 0
    /\ hat_offset_y = 0
    /\ hat_rotation = 0
    /\ hat_width = 0
    /\ hat_height = 0
    /\ hat_position = <<0, 0>>
    /\ pc = "idle"
    /\ err = "none"
    /\ result = "none"
    /\ session = IdleSessions
    /\ output_file = AbsentFile

(* lines 113-121: the uploaded image and the slider values go through
   add_santa_hat; an exception ends the script run. *)
Compose(s) ==
    /\ session[s].pc = "idle"
    /\ \E r \in SessionOutcomes :
          session' = [session EXCEPT ![s].pc = IF r.raised THEN "failed" ELSE "line132",
                                     ![s].combined = r.image]
    /\ UNCHANGED <<output_file, cvars>>

(* line 132, Image.save opens the path for writing: the file is truncated,
   the handle stands at position 0, and the writes that the save will pass
   to the file are those of its calls of fp.write through the buffer *)
SaveOpen(s) ==
    /\ session[s].pc = "line132"
    /\ output_file' = TruncatedFile
    /\ session' = [session EXCEPT
                      ![s].pc = "saving",
                      ![s].pos = 0,
                      ![s].pending = RawWrites(WriteCalls(session[s].combined), 0)]
    /\ UNCHANGED cvars

(* line 132, one write(2) of Image.save, at the position of the session's
   own handle; the last one is made by close.  Nothing is cut off at this
   point. *)
SaveWrite(s) ==
    /\ session[s].pc = "saving"
    /\ LET at == session[s].pos
           n == Head(session[s].pending)
       IN  /\ output_file' = WriteAt(output_file, at,
                                     SubSeq(PngBytes(session[s].combined), at + 1, at + n))
           /\ session' = [session EXCEPT
                             ![s].pos = at + n,
                             ![s].pending = Tail(session[s].pending),
                             ![s].pc = IF Len(session[s].pending) = 1 THEN "line134"
                                       ELSE "saving"]
    /\ UNCHANGED cvars

(* lines 134-135: the file is opened for reading and download_button starts
   to read it whole (seek(0), read(), which is FileIO.readall): the buffer
   is one byte larger than the size the file has now *)
OfferOpen(s) ==
    /\ session[s].pc = "line134"
    /\ session' = [session EXCEPT
                      ![s].pc = "reading",
                      ![s].data = <<>>,
                      ![s].bufsize = IF Len(output_file.bytes) > 0
                                     THEN Len(output_file.bytes) + 1 ELSE SMALLCHUNK]
    /\ UNCHANGED <<output_file, cvars>>

(* line 135, one read(2) of FileIO.readall: it asks for what the buffer,
   enlarged when full, still takes; the read that returns nothing ends
   readall, and the bytes read so far go to the download button *)
OfferRead(s) ==
    /\ session[s].pc = "reading"
    /\ LET bytes_read == Len(session[s].data)
           size == IF bytes_read >= session[s].bufsize THEN new_buffersize(bytes_read)
                   ELSE session[s].bufsize
           got == ReadAt(output_file, bytes_read, size - bytes_read)
       IN  session' = [session EXCEPT
                          ![s].pc = IF got = <<>> THEN "offered" ELSE "reading",
                          ![s].data = session[s].data \o got,
                          ![s].bufsize = size]
    /\ UNCHANGED <<output_file, cvars>>

(* Streamlit runs main again from the top when the session changes a widget
   or uploads another file *)
Rerun(s) ==
    /\ session[s].pc \in {"offered", "failed"}
    /\ session' = [session EXCEPT ![s] = IdleSessions[s]]
    /\ UNCHANGED <<output_file, cvars>>

NextMain ==
    \/ \E s \in Sessions : Compose(s)
    \/ \E s \in Sessions : SaveOpen(s)
    \/ \E s \in Sessions : SaveWrite(s)
    \/ \E s \in Sessions : OfferOpen(s)
    \/ \E s \in Sessions : OfferRead(s)
    \/ \E s \in Sessions : Rerun(s)

SpecMain == InitMain /\ [][NextMain]_vars

----------------------------------------------------------------------------
(* Properties of add_santa_hat *)

BaseWidth == heap["arg_profile"].width
BaseHeight == heap["arg_profile"].height
AfterSize == pc \notin {"line39", "line43"}
AfterResize == pc \in {"line48", "line51", "line58", "line61", "line63", "returned"}
AfterRotate == pc \in {"line51", "line58", "line61", "line63", "returned"}
AfterPosition == pc \in {"line58", "line61", "line63", "returned"}
AfterPaste == pc \in {"line63", "returned"}

(* C1: whenever add_santa_hat returns, the returned image has exactly the
   width and height of the base image passed in, whatever the overlay's size,
   the scale, the rotation and the offsets. *)
DimensionInvariant ==
    pc = "returned" =>
        /\ heap[result].width = BaseWidth
        /\ heap[result].height = BaseHeight

(* C1 witness: a returned call whose overlay, rotated by an angle that is not
   a quarter turn, is wider than the base and is pasted at a negative x. *)
DimensionWitness ==
    /\ pc = "returned"
    /\ heap["hat_rotated"].width > BaseWidth
    /\ hat_position[1] < 0
    /\ hat_rotation % 90 # 0

(* C2: no step of add_santa_hat changes the two image objects the caller
   passed in (size, mode and every pixel), also when they are RGBA already
   and when the call raises. *)
InputsUnchanged ==
    [][/\ heap'["arg_profile"] = heap["arg_profile"]
       /\ heap'["arg_hat"] = heap["arg_hat"]]_vars

(* C2 witness: a call on inputs that are RGBA already, with a rotation that
   is not a quarter turn, has returned, and the paste changed pixels of the
   composite. *)
InputsUnchangedWitness ==
    /\ pc = "returned"
    /\ hat_rotation % 90 # 0
    /\ heap["arg_profile"].mode = "RGBA"
    /\ heap["arg_hat"].mode = "RGBA"
    /\ heap["profile_rgba"] = heap["arg_profile"]
    /\ heap[result] # heap["arg_profile"]

(* t is a / b truncated toward zero (b > 0) *)
IsTruncation(t, a, b) ==
    IF a >= 0 THEN b * t <= a /\ a < b * (t + 1)
    ELSE b * t >= a /\ a > b * (t - 1)

(* t is a / b rounded to a nearest integer (b > 0), a tie going either way *)
IsNearest(t, a, b) == 2 * b * t - b <= 2 * a /\ 2 * a <= 2 * b * t + b

(* C3 as stated: the overlay is resized to round(W * s) by
   round(h * (targetWidth / w)), round-to-nearest of the exact products. *)
SizeRounded ==
    AfterSize =>
        /\ IsNearest(hat_width, BaseWidth * hat_scale, ScaleDen)
        /\ IsNearest(hat_height, heap["arg_hat"].height * hat_width, heap["arg_hat"].width)

(* t is what int() gives for the product h * (a / b) (h >= 0, b > 0): the
   exact product truncated toward zero or, only where the exact product is a
   whole number other than 0, the whole number next to it toward zero *)
IsTruncationOfDouble(t, h, a, b) ==
    \/ IsTruncation(t, h * a, b)
    \/ /\ (h * a) % b = 0
       /\ h * a > 0 => b * (t + 1) = h * a
       /\ h * a < 0 => b * (t - 1) = h * a
       /\ h * a # 0

(* C3 amended: the overlay is resized to int(W * s) by
   int(h * (targetWidth / w)), the double-precision products truncated toward
   zero: the exact products truncated, except that an exact product that is
   a whole number can come out one less (180 * 0.35 gives 62, 27 * (13 / 3)
   gives 116); 3 * 0.6 gives 1; the resized overlay has exactly that size. *)
SizeTruncated ==
    /\ AfterSize =>
          /\ IsTruncationOfDouble(hat_width, BaseWidth, hat_scale, ScaleDen)
          /\ IsTruncationOfDouble(hat_height, heap["arg_hat"].height, hat_width,
                                  heap["arg_hat"].width)
          /\ (BaseWidth = 3 /\ hat_scale = 12) => hat_width = 1
          /\ (BaseWidth = 180 /\ hat_scale = 7) => hat_width = 62
          /\ (heap["arg_hat"].height = 27 /\ heap["arg_hat"].width = 3 /\ hat_width = 13) =>
                 hat_height = 116
    /\ AfterResize =>
          /\ heap["hat_resized"].width = hat_width
          /\ heap["hat_resized"].height = hat_height

(* C3 witness: the overlay was resized to a width one below the exact
   product W * s, a whole number, which is also what rounding would give. *)
SizeTruncatedWitness ==
    /\ AfterResize
    /\ ScaleDen * (hat_width + 1) = BaseWidth * hat_scale

(* C5: the paste position is x = floor((W - rotated width) / 2) + offsetX and
   y = offsetY, for negative offsets and for overlays wider than the base
   too; with offsetX = 0 the midpoint of the placed box is within one pixel
   of the midpoint of the base. *)
PositionFormula ==
    AfterPosition =>
        LET rw == heap["hat_rotated"].width
            cx == hat_position[1] - hat_offset_x
        IN  /\ 2 * cx <= BaseWidth - rw
            /\ BaseWidth - rw < 2 * cx + 2
            /\ hat_position[2] = hat_offset_y
            /\ hat_offset_x = 0 =>
                  /\ 2 * hat_position[1] + rw - BaseWidth <= 2
                  /\ BaseWidth - (2 * hat_position[1] + rw) <= 2

(* C5 witness: the overlay, rotated by an angle that is not a quarter turn,
   is wider than the base by an odd number of pixels, the offsets are
   negative and the overlay is not at mid-height. *)
PositionWitness ==
    /\ AfterPosition
    /\ hat_rotation % 90 # 0
    /\ heap["hat_rotated"].width > BaseWidth
    /\ (heap["hat_rotated"].width - BaseWidth) % 2 = 1
    /\ hat_offset_x < 0
    /\ hat_offset_y < 0
    /\ 2 * hat_position[2] + heap["hat_rotated"].height # BaseHeight

(* The resize target is degenerate *)
Degenerate == hat_scale <= 0 \/ hat_width = 0 \/ hat_height = 0

(* C6: when the resize target is degenerate (scale <= 0, or a target width or
   height of 0), add_santa_hat ends in an error raised at the resize: it
   returns no image and neither rotates nor pastes. *)
FailFast ==
    (pc \notin {"line39", "line43", "line45"} /\ Degenerate) =>
        /\ pc = "raised"
        /\ err = "ValueError"
        /\ result = "none"
        /\ heap["hat_resized"] = NoImage
        /\ heap["hat_rotated"] = NoImage
        /\ heap["combined"] = NoImage

(* C6 witness: scale 0.1, the least the slider allows, on a base narrower
   than 10 pixels has raised. *)
FailFastWitness ==
    /\ pc = "raised"
    /\ hat_scale = 2
    /\ BaseWidth < 10
    /\ hat_width = 0

----------------------------------------------------------------------------
(* Pixel-level properties of the paste *)

Range(f) == {f[i] : i \in DOMAIN f}

(* Where the pixels of a raster can change along x, along y *)
XCuts(im) == {0, im.width - 1} \cup UNION {{r.x0 - 1, r.x0, r.x1 - 1, r.x1} : r \in Range(im.patches)}
YCuts(im) == {0, im.height - 1} \cup UNION {{r.y0 - 1, r.y0, r.y1 - 1, r.y1} : r \in Range(im.patches)}

(* The coordinates inspected after the paste: all of a small canvas; of a
   large one, every column and row at which the composite, the base or the
   placed overlay can change, and its neighbours. *)
ProbeXs ==
    LET x0 == hat_position[1]
        cuts == XCuts(heap["combined"]) \cup XCuts(heap["profile_rgba"])
                  \cup {x0 + c : c \in XCuts(heap["hat_rotated"]) \cup {-1, heap["hat_rotated"].width}}
    IN  {x \in 0..(heap["combined"].width - 1) : x < FullScan \/ x \in cuts}

ProbeYs ==
    LET y0 == hat_position[2]
        cuts == YCuts(heap["combined"]) \cup YCuts(heap["profile_rgba"])
                  \cup {y0 + c : c \in YCuts(heap["hat_rotated"]) \cup {-1, heap["hat_rotated"].height}}
    IN  {y \in 0..(heap["combined"].height - 1) : y < FullScan \/ y \in cuts}

(* (x, y) lies in the box the rotated overlay is placed at *)
InBox(x, y) ==
    /\ hat_position[1] <= x /\ x < hat_position[1] + heap["hat_rotated"].width
    /\ hat_position[2] <= y /\ y < hat_position[2] + heap["hat_rotated"].height

AlphaEverywhere(im, a) == \A r \in Range(Layers(im)) : r.px[4] = a

Scenario(rot) ==
    /\ heap["arg_profile"] = Uniform("RGBA", 800, 800, White)
    /\ heap["arg_hat"] = Uniform("RGBA", 200, 100, Red)
    /\ hat_scale = 10
    /\ hat_offset_x = 0
    /\ hat_offset_y = 0
    /\ hat_rotation = rot

(* C4 as stated: inside the placed box every output pixel is the overlay
   pixel composited "over" the base pixel in all four channels, and where
   the base pixel is opaque the output pixel is opaque. *)
PasteIsOver ==
    AfterPaste =>
        \A x \in ProbeXs, y \in ProbeYs :
            InBox(x, y) =>
                LET b == PixelAt(heap["profile_rgba"], x, y)
                    o == PixelAt(heap["hat_rotated"], x - hat_position[1], y - hat_position[2])
                    out == PixelAt(heap["combined"], x, y)
                IN  /\ out = composite_pixel(b, o)
                    /\ b[4] = 255 => out[4] = 255

(* The output after an opaque, unrotated overlay: overlay pixels in the part
   of the placed box that lies on the canvas, base pixels elsewhere. *)
OpaquePixels ==
    AfterPaste =>
        /\ \A x \in ProbeXs, y \in ProbeYs :
              PixelAt(heap["combined"], x, y) =
                 IF /\ hat_position[1] <= x /\ x < hat_position[1] + hat_width
                    /\ hat_position[2] <= y /\ y < hat_position[2] + hat_height
                 THEN PixelAt(heap["hat_resized"], x - hat_position[1], y - hat_position[2])
                 ELSE PixelAt(heap["profile_rgba"], x, y)
        /\ Scenario(0) =>
              \A x \in ProbeXs, y \in ProbeYs :
                  PixelAt(heap["combined"], x, y) =
                     IF 200 <= x /\ x < 600 /\ 0 <= y /\ y < 200 THEN Red ELSE White

(* C7 as stated: for an opaque overlay at rotation 0 and any scale and
   offsets add_santa_hat raises no error, and the output is the resized
   overlay inside the placed box clipped to the canvas and the base
   elsewhere. *)
OpaquePasteNeverRaises ==
    (AlphaEverywhere(heap["arg_hat"], 255) /\ hat_rotation = 0) =>
        /\ pc # "raised"
        /\ OpaquePixels

(* C7 amended: for an opaque overlay at rotation 0, any offsets and any scale
   whose resize target is at least 1x1, add_santa_hat raises no error, and
   the output is the resized overlay inside the placed box clipped to the
   canvas and the base elsewhere. *)
OpaquePasteClipped ==
    (AlphaEverywhere(heap["arg_hat"], 255) /\ hat_rotation = 0) =>
        /\ pc = "raised" => Degenerate
        /\ OpaquePixels

(* C7 witness: an opaque two-colour overlay was pasted with its left part
   cut off by the canvas edge. *)
OpaquePasteWitness ==
    /\ pc = "returned"
    /\ AlphaEverywhere(heap["arg_hat"], 255)
    /\ hat_rotation = 0
    /\ heap["arg_hat"].patches # <<>>
    /\ hat_position[1] < 0
    /\ hat_position[1] + hat_width > 0
    /\ hat_position[2] = 0

(* C8: when every overlay pixel has alpha 0, the returned image equals the
   base converted to RGBA at every coordinate, in all four channels. *)
TransparentNoOp ==
    (pc = "returned" /\ AlphaEverywhere(heap["arg_hat"], 0)) =>
        \A x \in ProbeXs, y \in ProbeYs :
            PixelAt(heap[result], x, y) = PixelAt(convert(heap["arg_profile"], "RGBA"), x, y)

(* C8 witness: a fully transparent overlay, resized and rotated by an angle
   that is not a quarter turn, was pasted at a place that meets the canvas. *)
TransparentWitness ==
    /\ pc = "returned"
    /\ AlphaEverywhere(heap["arg_hat"], 0)
    /\ hat_rotation % 90 # 0
    /\ hat_width # heap["arg_hat"].width
    /\ \E x \in ProbeXs, y \in ProbeYs : InBox(x, y)

(* C9 as stated: in the scenario with rotation 90 the resized 400x200 overlay
   rotates to a 400x400 or near-square bounding box. *)
RotatedNearSquare ==
    (Scenario(90) /\ AfterRotate) =>
        LET w == heap["hat_rotated"].width
            h == heap["hat_rotated"].height
        IN  10 * (Max(w, h) - Min(w, h)) <= Max(w, h)

(* C9 amended: in the scenario with rotation 90 the resized 400x200 overlay
   rotates to a 200x400 bounding box, is placed at x = (800 - 200) / 2 = 300,
   y = 0, and the output is red in columns [300,500), rows [0,400) and white
   elsewhere. *)
RotatedQuarterTurn ==
    Scenario(90) =>
        /\ AfterResize => heap["hat_resized"].width = 400 /\ heap["hat_resized"].height = 200
        /\ AfterRotate => heap["hat_rotated"].width = 200 /\ heap["hat_rotated"].height = 400
        /\ AfterPosition => hat_position = <<300, 0>>
        /\ AfterPaste =>
              \A x \in ProbeXs, y \in ProbeYs :
                  PixelAt(heap["combined"], x, y) =
                     IF 300 <= x /\ x < 500 /\ 0 <= y /\ y < 400 THEN Red ELSE White

(* C9 witness: the scenario with rotation 90 has returned. *)
RotatedScenarioWitness == Scenario(90) /\ pc = "returned"

----------------------------------------------------------------------------
(* Property of main *)

(* C10 as stated: the bytes a session hands to its download button are the
   PNG of the combined_image that session computed. *)
OwnImageOffered ==
    \A s \in Sessions :
        session[s].pc = "offered" => session[s].data = PngBytes(session[s].combined)

====
